---------------------------- MODULE Spec2Model ----------------------------
(***************************************************************************)
(* Host side of the PIM back end (third-party/pim-hexl): the per-DPU MRAM  *)
(* allocator (mram_allocator.hpp), the PIMManager singleton                *)
(* (pim_manager.hpp), the distributed pim::Vector with its lazy host/DPU   *)
(* coherence protocol (pim_vector.hpp), run_kernel and the element-wise    *)
(* helpers (pim_operations.hpp), and the DPU kernel they launch            *)
(* (dpu/memory.h, dpu/elementwise/add-mod.h).                              *)
(***************************************************************************)
EXTENDS Integers, Sequences, FiniteSets, TLC

(***************************************************************************)
(* Program constants.                                                      *)
(***************************************************************************)
\* align_up(bytes, 8) in MramAllocator::alloc / free and allocate_uniform
AllocAlign == 8
\* sizeof(dpu_word_t)
WordBytes == 8
\* "if (chunk_ % 8) chunk_ += 8 - (chunk_ % 8)" in Vector::build
ChunkAlign == 8

(***************************************************************************)
(* Bounds of the model.                                                    *)
(***************************************************************************)
\* uint32_t (align_up's parameters, cur_, offsets) is modelled AddrBits wide and
\* dpu_word_t (uint64_t) WordBits wide: TLC's integers stop at 2^31 - 1
AddrBits == 12
WordBits == 10
\* limit of the stand-alone allocator (MramAllocator(limit)), as in the limit-64 scenario
HeapLimit == 64
\* number of alloc/free/reset calls made on the stand-alone allocator
MaxOps == 6
\* operations on the manager and Vectors in one run
MaxSteps == 5

\* limit of the allocators the manager creates (MramAllocator(), 64 MiB in the
\* code) and size of each DPU's MRAM heap, in bytes
MramLimit == 256
\* number of DPUs DpuSet::allocate(DPU_ALLOCATE_ALL) finds
HwDpus == 2
\* the count of deallocate calls on one Block is recorded up to RelCap
RelCap == 3

AddrMod == 2 ^ AddrBits
WordMod == 2 ^ WordBits

Min(S) == CHOOSE x \in S : \A y \in S : x <= y
Max(S) == CHOOSE x \in S : \A y \in S : x >= y
\* F(x), with x evaluated once before F is applied to it
ByValue(x, F(_)) == CHOOSE r \in {F(v) : v \in {x}} : TRUE

(***************************************************************************)
(* std::map<uint32_t, size_t>: a function with a finite domain of keys.    *)
(***************************************************************************)
EmptyMap == [k \in {} |-> 0]
MapPut(f, k, v) == [x \in (DOMAIN f) \cup {k} |-> IF x = k THEN v ELSE f[x]]
MapErase(f, k) == [x \in (DOMAIN f) \ {k} |-> f[x]]

(***************************************************************************)
(* mram_allocator.hpp                                                      *)
(***************************************************************************)
\* static inline uint32_t align_up(uint32_t x, uint32_t a): (x + a - 1) & ~(a - 1)
\* in 32-bit arithmetic (a is a power of two)
align_up(x, a) ==
  LET s == ((x % AddrMod) + a - 1) % AddrMod
  IN  s - (s % a)

\* MramAllocator(limit): cur_{0}, limit_, free_ empty
MramAllocator(limit) == [cur |-> 0, limit |-> limit, free |-> EmptyMap]

\* alloc taking the last fitting free block instead of the first
alloc_lastfit(al, bytes0) ==
  LET bytes == align_up(bytes0, AllocAlign)
      fits  == {k \in DOMAIN al.free : al.free[k] >= bytes}
  IN  IF fits # {}
      THEN LET off == Max(fits)
               rem == al.free[off] - bytes
               f1  == MapErase(al.free, off)
               f2  == IF rem # 0 THEN MapPut(f1, (off + bytes) % AddrMod, rem) ELSE f1
           IN  [st |-> [al EXCEPT !.free = f2], off |-> off, err |-> "none"]
      ELSE IF al.cur + bytes > al.limit
           THEN [st |-> al, off |-> -1, err |-> "bad_alloc"]
           ELSE [st  |-> [al EXCEPT !.cur = (al.cur + bytes) % AddrMod],
                 off |-> al.cur, err |-> "none"]

\* alloc advancing cur before it tests the limit
alloc_bump_first(al, bytes0) ==
  LET bytes == align_up(bytes0, AllocAlign)
      fits  == {k \in DOMAIN al.free : al.free[k] >= bytes}
      bump  == [al EXCEPT !.cur = (al.cur + bytes) % AddrMod]
  IN  IF fits # {}
      THEN LET off == Min(fits)
               rem == al.free[off] - bytes
               f1  == MapErase(al.free, off)
               f2  == IF rem # 0 THEN MapPut(f1, (off + bytes) % AddrMod, rem) ELSE f1
           IN  [st |-> [al EXCEPT !.free = f2], off |-> off, err |-> "none"]
      ELSE IF al.cur + bytes > al.limit
           THEN [st |-> bump, off |-> -1, err |-> "bad_alloc"]
           ELSE [st |-> bump, off |-> al.cur, err |-> "none"]

\* MramAllocator::alloc. The result carries the allocator afterwards (st), the
\* returned offset (off, -1 when it throws) and the exception (err).
alloc(al, bytes0) ==
  LET bytes == align_up(bytes0, AllocAlign)
      fits  == {k \in DOMAIN al.free : al.free[k] >= bytes}
  IN  IF fits # {}
      THEN \* first block in key order whose size is enough
           LET off == Min(fits)
               rem == al.free[off] - bytes
               f1  == MapErase(al.free, off)
               f2  == IF rem # 0 THEN MapPut(f1, (off + bytes) % AddrMod, rem) ELSE f1
           IN  [st  |-> [al EXCEPT !.free = f2],
                off |-> IF off > al.limit THEN -1 ELSE off,
                err |-> IF off > al.limit THEN "runtime_error" ELSE "none"]
      ELSE IF al.cur + bytes > al.limit
           THEN [st |-> al, off |-> -1, err |-> "bad_alloc"]
           ELSE [st  |-> [al EXCEPT !.cur = (al.cur + bytes) % AddrMod],
                 off |-> IF al.cur > al.limit THEN -1 ELSE al.cur,
                 err |-> IF al.cur > al.limit THEN "runtime_error" ELSE "none"]

\* MramAllocator::free
free(al, off, bytes0) ==
  LET bytes == align_up(bytes0, AllocAlign)
  IN  IF off > al.limit \/ off + bytes > al.limit
      THEN al
      ELSE IF off \in DOMAIN al.free
      THEN al  \* double free detected
      ELSE LET f1     == MapPut(al.free, off, bytes)
               nxtKey == off + bytes
               hasNxt == nxtKey \in DOMAIN f1
               bytes2 == IF hasNxt THEN bytes + f1[nxtKey] ELSE bytes
               f2     == IF hasNxt THEN MapPut(MapErase(f1, nxtKey), off, bytes2) ELSE f1
               below  == {k \in DOMAIN f2 : k < off}
               prv    == Max(below)
               merge  == below # {} /\ prv + f2[prv] = off
               f3     == IF merge
                         THEN MapErase([f2 EXCEPT ![prv] = f2[prv] + bytes2], off)
                         ELSE f2
           IN  [al EXCEPT !.free = f3]

\* MramAllocator::reset
reset(al) == [al EXCEPT !.cur = 0, !.free = EmptyMap]

(***************************************************************************)
(* State.                                                                  *)
(***************************************************************************)
VARIABLES
  heap,     \* a stand-alone MramAllocator: [cur, limit, free]
  handed,   \* the (offset, bytes) pairs alloc has returned on heap so far
  live,     \* those of them that are allocated now (returned and not freed since)
  hist,     \* the calls made on heap, with their results
  shutdown_mode,  \* pim::shutdown_mode
  mgr,      \* the PIMManager singleton: initialised_, loaded_, dpu_n_, elf_path_, alloc_
  mram,     \* the MRAM heap of every DPU, word by word (sys_)
  wram,     \* DPU_INPUT_ARGUMENTS as last pushed to every DPU
  vec,      \* the pim::Vector objects of the program, by name
  nsteps,   \* how many operations the program has performed on the manager and Vectors
  call,     \* the last operation the program performed, with what it was given
  ops,      \* the manager and Vector calls that operation made, in order
  blocks,   \* the Blocks the program got from allocate_uniform itself and still holds
  threads,  \* the host threads of a multi-threaded program: where each one is in its call
  pim_mutex_  \* PIMManager::pim_mutex_: the thread that holds it, NoThread when free

heapVars == <<heap, handed, live, hist>>
thrVars  == <<threads, pim_mutex_>>
pimVars  == <<shutdown_mode, mgr, mram, wram, vec, nsteps, call, ops, blocks, threads,
              pim_mutex_>>
vars == <<heap, handed, live, hist, shutdown_mode, mgr, mram, wram, vec, nsteps, call, ops,
          blocks, threads, pim_mutex_>>

(***************************************************************************)
(* pim_manager.hpp                                                         *)
(***************************************************************************)
\* nr_dpus = DPU_ALLOCATE_ALL
DPU_ALLOCATE_ALL == 0 - 1

\* the PIMManager before init: dpu_n_{0}, initialised_{false}, loaded_{false}
PIMManager0 ==
  [initialised |-> FALSE, loaded |-> FALSE, dpu_n |-> 0, elf_path |-> "", alloc_ |-> <<>>]

\* PIMManager::ensure_loaded
ensure_loaded(m) ==
  IF ~m.loaded /\ m.elf_path # "" THEN [m EXCEPT !.loaded = TRUE] ELSE m

\* init without the initialised_ test: every call sets the manager up anew
init_again(m, nr, elf) ==
  IF shutdown_mode THEN m
  ELSE LET n == IF nr = DPU_ALLOCATE_ALL THEN HwDpus ELSE nr
       IN  ensure_loaded([m EXCEPT !.alloc_ = [i \in 1..n |-> MramAllocator(MramLimit)],
                                   !.dpu_n = n,
                                   !.elf_path = elf,
                                   !.initialised = TRUE])

\* PIMManager::init; DpuSet::allocate(nr) gives nr DPUs, all of them for
\* DPU_ALLOCATE_ALL
init(m, nr, elf) ==
  IF shutdown_mode THEN m
  ELSE IF m.initialised THEN m
  ELSE LET n == IF nr = DPU_ALLOCATE_ALL THEN HwDpus ELSE nr
       IN  ensure_loaded([m EXCEPT !.alloc_ = [i \in 1..n |-> MramAllocator(MramLimit)],
                                   !.dpu_n = n,
                                   !.elf_path = elf,
                                   !.initialised = TRUE])

\* the loop of allocate_uniform over alloc_[i], i >= from: stops at the first
\* alloc that throws, leaving the allocators before it changed
RECURSIVE AllocFrom(_, _, _)
AllocFrom(allocs, from, bytes) ==
  IF from > Len(allocs) THEN [allocs |-> allocs, err |-> "none"]
  ELSE LET r == alloc(allocs[from], bytes)
       IN  IF r.err # "none"
           THEN [allocs |-> [allocs EXCEPT ![from] = r.st], err |-> r.err]
           ELSE AllocFrom([allocs EXCEPT ![from] = r.st], from + 1, bytes)

\* PIMManager::allocate_uniform: the manager afterwards, the Block and the exception
allocate_uniform(m, bytes0) ==
  LET bytes == align_up(bytes0, AllocAlign)
  IN  IF Len(m.alloc_) = 0
      THEN [m |-> m, off |-> 0, bytes |-> 0, err |-> "runtime_error"]
      ELSE LET r0 == alloc(m.alloc_[1], bytes)
           IN  IF r0.err # "none"
               THEN [m |-> [m EXCEPT !.alloc_[1] = r0.st], off |-> 0, bytes |-> 0,
                     err |-> r0.err]
               ELSE LET rest == AllocFrom([m.alloc_ EXCEPT ![1] = r0.st], 2, bytes)
                    IN  [m |-> [m EXCEPT !.alloc_ = rest.allocs],
                         off |-> r0.off, bytes |-> bytes, err |-> rest.err]

\* a deallocate that does not look at shutdown_mode
deallocate_regardless(m, off, bytes) ==
  [m EXCEPT !.alloc_ = [i \in 1..Len(m.alloc_) |-> free(m.alloc_[i], off, bytes)]]

\* PIMManager::deallocate
deallocate(m, off, bytes) ==
  IF shutdown_mode THEN m
  ELSE [m EXCEPT !.alloc_ = [i \in 1..Len(m.alloc_) |-> free(m.alloc_[i], off, bytes)]]

\* a reset_memory that resets the first allocator only
reset_memory_first(m) ==
  [m EXCEPT !.alloc_ = [i \in 1..Len(m.alloc_) |->
                          IF i = 1 THEN reset(m.alloc_[i]) ELSE m.alloc_[i]]]

\* PIMManager::reset_memory
reset_memory(m) ==
  [m EXCEPT !.alloc_ = [i \in 1..Len(m.alloc_) |-> reset(m.alloc_[i])]]

(***************************************************************************)
(* pim_vector.hpp: construction, assignment, destruction                   *)
(***************************************************************************)
\* a name with no Vector object behind it (gone is kept: see below)
NoVector(gone) ==
  [live |-> FALSE, total |-> 0, off |-> 0, bytes |-> 0, shards |-> <<>>,
   state |-> "HOST_DIRTY", rel |-> 0, gone |-> gone, latest |-> <<>>]

\* Vector(): shard_{0, 0}, total_(0), state_{HOST_DIRTY}. rel counts the
\* deallocate calls made on the Block held now; gone records, for every Block
\* this name gave up, that count and whether shutdown_mode was set then; latest
\* is the contents last given to the array, by the host or by a kernel.
EmptyVector(gone) == [NoVector(gone) EXCEPT !.live = TRUE]

\* a Vector holds a Block when shard_.bytes > 0
HoldsBlock(v) == v.bytes > 0

\* the Block of v stops being v's: its count goes to gone
GiveUp(v) ==
  IF HoldsBlock(v)
  THEN [v EXCEPT !.gone = @ \cup {<<v.rel, shutdown_mode>>}, !.rel = 0]
  ELSE v

\* Vector::deallocate_if_owner
deallocate_if_owner(m, v) ==
  IF v.total > 0 /\ v.bytes > 0
  THEN [m |-> deallocate(m, v.off, v.bytes),
        v |-> [v EXCEPT !.rel = IF @ < RelCap THEN @ + 1 ELSE @]]
  ELSE [m |-> m, v |-> v]

\* Vector::reset_to_empty
reset_to_empty(v) ==
  [v EXCEPT !.off = 0, !.bytes = 0, !.total = 0, !.shards = <<>>,
            !.state = "HOST_DIRTY", !.rel = 0, !.latest = <<>>]

\* Width of size_t, scaled down as AddrBits scales uint32_t (it stays the wider one)
SizeBits == 14

SizeMod == 2 ^ SizeBits

\* chunk_ of Vector::build: (n + D - 1) / D, then raised to a multiple of 8
\* elements; both sums are size_t sums and wrap at SizeMod
ChunkLen(n, D) ==
  LET c == ((n + D - 1) % SizeMod) \div D
  IN  IF c % ChunkAlign # 0 THEN (c + ChunkAlign - (c % ChunkAlign)) % SizeMod ELSE c

\* Vector::build: the manager and the Vector afterwards, and the exception
build(m, v, n, fill) ==
  ByValue(deallocate_if_owner(IF m.dpu_n = 0 THEN init(m, DPU_ALLOCATE_ALL, "main.dpu") ELSE m,
                              v), LAMBDA d :
  IF n = 0
  THEN [m |-> d.m, v |-> reset_to_empty(GiveUp(d.v)), err |-> "none"]
  ELSE LET D       == d.m.dpu_n
           chunk   == ChunkLen(n, D)
           aligned == (((chunk * WordBytes) + 7) \div 8) * 8
       IN  ByValue(allocate_uniform(d.m, aligned), LAMBDA r :
             IF r.err # "none"
             THEN [m |-> r.m, v |-> [d.v EXCEPT !.total = n], err |-> r.err]
             ELSE [m |-> r.m,
                   v |-> [GiveUp(d.v) EXCEPT
                            !.total = n, !.off = r.off, !.bytes = r.bytes,
                            !.shards = [u \in 1..D |-> [k \in 1..chunk |-> fill]],
                            !.latest = [u \in 1..D |-> [k \in 1..chunk |-> fill]],
                            !.state = "HOST_DIRTY"],
                   err |-> "none"]))

\* a resize that rebuilds whatever the new size is
resize_always(m, v, n, fill) == build(m, v, n, fill)

\* Vector::resize(new_size, value)
resize(m, v, n, fill) ==
  IF n # v.total THEN build(m, v, n, fill) ELSE [m |-> m, v |-> v, err |-> "none"]

\* Vector::clear
clear(m, v) ==
  ByValue(deallocate_if_owner(m, v), LAMBDA d :
    [m |-> d.m, v |-> reset_to_empty(GiveUp(d.v)), err |-> "none"])

\* Vector::~Vector
destroy(m, v) ==
  IF shutdown_mode
  THEN [m |-> m, v |-> NoVector(GiveUp(v).gone)]
  ELSE ByValue(deallocate_if_owner(m, v), LAMBDA d :
         [m |-> d.m, v |-> NoVector(GiveUp(d.v).gone)])


\* Vector::operator=(Vector&&), this != &other: the Block of src becomes dst's
move_assign(m, dst, src) ==
  ByValue(deallocate_if_owner(m, dst), LAMBDA d :
    [m   |-> d.m,
     dst |-> [src EXCEPT !.gone = GiveUp(d.v).gone],
     src |-> reset_to_empty(src)])

(***************************************************************************)
(* pim_manager.hpp: transfers and launch; the DPU program                  *)
(***************************************************************************)
\* number of words of one DPU's MRAM heap
MramWords == MramLimit \div WordBytes

\* the words of every DPU's MRAM at byte offset off, shaped like shards
DeviceView(mr, off, shards) ==
  [u \in 1..Len(shards) |->
     [k \in 1..Len(shards[u]) |-> mr[u][(off \div WordBytes) + k - 1]]]

\* PIMManager::scatter: sys_->copy(heap, off, per_dpu) writes buffer u to DPU u
\* at off (one buffer per DPU; words past the end of the heap are not stored)
scatter(mr0, per_dpu0, off) ==
  ByValue(<<mr0, per_dpu0>>, LAMBDA p : LET mr == p[1]  per_dpu == p[2] IN
  [u \in DOMAIN mr |->
     IF u \in DOMAIN per_dpu
     THEN [w \in DOMAIN mr[u] |->
             LET k == w - (off \div WordBytes) + 1
             IN  IF k \in DOMAIN per_dpu[u] THEN per_dpu[u][k] ELSE mr[u][w]]
     ELSE mr[u]])

\* a scatter that copies whatever buffers it is given, without counting them
scatter_unchecked(m, mr, per_dpu, off) ==
  [m |-> ensure_loaded(m), mram |-> scatter(mr, per_dpu, off), err |-> "none"]

\* PIMManager::scatter of host.hpp: the buffers are counted before the copy
scatter_checked(m, mr, per_dpu, off) ==
  IF Len(per_dpu) # m.dpu_n
  THEN [m |-> ensure_loaded(m), mram |-> mr, err |-> "scatter size mismatch"]
  ELSE [m |-> ensure_loaded(m), mram |-> scatter(mr, per_dpu, off), err |-> "none"]

\* PIMManager::gather: sys_->copy(data, bytes, heap, off) reads bytes from
\* every DPU at off into data[u]
gather(mr0, data0, bytes, off) ==
  ByValue(<<mr0, data0>>, LAMBDA p : LET mr == p[1]  data == p[2] IN
  [u \in DOMAIN data |->
     [k \in DOMAIN data[u] |->
        IF k <= bytes \div WordBytes
        THEN mr[u][(off \div WordBytes) + k - 1]
        ELSE data[u][k]]])

\* add_mod_u64 (number-theory.h), in dpu_word_t arithmetic
add_mod_u64(x, y, m) ==
  LET s == (x + y) % WordMod
  IN  IF s >= m THEN s - m ELSE s

\* mod_add (add-mod.h) through process_mram_blocks (memory.h) on one DPU: the
\* tasklets cover [0, A.size) between them; B is read only when B.offset # 0,
\* otherwise add_mod_compute reads through the null buf_B, g being what it
\* finds there and what a read past the end of MRAM finds
mod_add(mem0, args0, g) ==
  LET run(mem, args) ==
        LET word(m, w) == IF w \in DOMAIN m THEN m[w] ELSE g
            a0 == args.A.offset \div WordBytes
            b0 == args.B.offset \div WordBytes
            c0 == args.C.offset \div WordBytes
            n  == args.A.size
        IN  [w \in DOMAIN mem |->
               IF w >= c0 /\ w < c0 + n
               THEN add_mod_u64(word(mem, a0 + (w - c0)),
                                IF args.B.offset # 0 THEN word(mem, b0 + (w - c0)) ELSE g,
                                args.mod)
               ELSE mem[w]]
  IN  ByValue(<<mem0, args0>>, LAMBDA p : run(p[1], p[2]))

\* mod_add_scalar (add-mod.h) through process_mram_blocks on one DPU: no B
\* array is passed, every element of A is added to the scalar of the record
mod_add_scalar(mem0, args0, g) ==
  LET run(mem, args) ==
        LET word(m, w) == IF w \in DOMAIN m THEN m[w] ELSE g
            a0 == args.A.offset \div WordBytes
            c0 == args.C.offset \div WordBytes
            n  == args.A.size
        IN  [w \in DOMAIN mem |->
               IF w >= c0 /\ w < c0 + n
               THEN add_mod_u64(word(mem, a0 + (w - c0)), args.scalar, args.mod)
               ELSE mem[w]]
  IN  ByValue(<<mem0, args0>>, LAMBDA p : run(p[1], p[2]))

\* main (dpu): kernels[DPU_INPUT_ARGUMENTS.kernel]()
kernels(mem, args, g) ==
  IF args.kernel = "MOD_ADD_SCALAR" THEN mod_add_scalar(mem, args, g)
  ELSE mod_add(mem, args, g)

\* make_array (host_args.hpp)
make_array(off, elems) ==
  [offset |-> off % AddrMod, size |-> elems % AddrMod,
   size_in_bytes |-> (elems * WordBytes) % AddrMod]

(***************************************************************************)
(* pim_vector.hpp: host access and synchronisation                         *)
(***************************************************************************)
\* Vector::locate: <<shard, index>> counted from 1, or the exception
locate(v, i) ==
  IF i >= v.total THEN [err |-> "out_of_range", s |-> 0, idx |-> 0]
  ELSE IF Len(v.shards) = 0 THEN [err |-> "runtime_error", s |-> 0, idx |-> 0]
  ELSE LET eps == Len(v.shards[1])
           si  == i \div eps
           li  == i % eps
       IN  IF si >= Len(v.shards) THEN [err |-> "runtime_error", s |-> 0, idx |-> 0]
           ELSE [err |-> "none", s |-> si + 1, idx |-> li + 1]

\* a pull_all that marks the host copy current without fetching it
pull_all_nofetch(mr, v0) ==
  ByValue(v0, LAMBDA v :
  IF v.state # "PIM_FRESH" THEN [v |-> v, ops |-> <<>>]
  ELSE [v |-> [v EXCEPT !.state = "CLEAN"], ops |-> <<>>])

\* Vector::pull_all (T = dpu_word_t): the Vector afterwards and the calls made
pull_all(mr, v0) ==
  ByValue(v0, LAMBDA v :
  IF v.state # "PIM_FRESH" THEN [v |-> v, ops |-> <<>>]
  ELSE [v   |-> [v EXCEPT !.shards = gather(mr, v.shards, v.bytes, v.off),
                          !.state = "CLEAN"],
        ops |-> << <<"gather", v.off, v.bytes>> >>])

\* a commit that transfers whatever the state is
commit_always(mr, v0) ==
  ByValue(v0, LAMBDA v :
  [mram |-> scatter(mr, v.shards, v.off),
   v    |-> [v EXCEPT !.state = "CLEAN"],
   ops  |-> << <<"scatter", v.off>> >>])

\* Vector::commit (T = dpu_word_t): MRAM and the Vector afterwards, the calls made
commit(mr, v0) ==
  ByValue(v0, LAMBDA v :
  IF v.state # "HOST_DIRTY" THEN [mram |-> mr, v |-> v, ops |-> <<>>]
  ELSE [mram |-> scatter(mr, v.shards, v.off),
        v    |-> [v EXCEPT !.state = "CLEAN"],
        ops  |-> << <<"scatter", v.off>> >>])

\* an invalidate_host that leaves a Clean array alone
invalidate_host_unless_clean(v) ==
  IF v.state = "CLEAN" THEN v ELSE [v EXCEPT !.state = "PIM_FRESH"]

\* Vector::invalidate_host
invalidate_host(v) == [v EXCEPT !.state = "PIM_FRESH"]

\* T& Vector::operator[](i) followed by the assignment of x through the
\* reference it returns: the Vector afterwards, the calls made, the exception
subscript_assign(mr, v, i, x) ==
  ByValue(pull_all(mr, v), LAMBDA p : ByValue(locate(p.v, i), LAMBDA loc :
      IF loc.err # "none" THEN [v |-> p.v, ops |-> p.ops, err |-> loc.err]
      ELSE [v   |-> [p.v EXCEPT !.state = "HOST_DIRTY",
                                !.shards[loc.s][loc.idx] = x,
                                !.latest = [p.v.shards EXCEPT ![loc.s][loc.idx] = x]],
            ops |-> p.ops, err |-> "none"]))

\* const T& Vector::operator[](i) const: also the value returned
subscript_const(mr, v, i) ==
  ByValue(pull_all(mr, v), LAMBDA p : ByValue(locate(p.v, i), LAMBDA loc :
      IF loc.err # "none" THEN [v |-> p.v, ops |-> p.ops, err |-> loc.err, val |-> 0]
      ELSE [v |-> p.v, ops |-> p.ops, err |-> "none", val |-> p.v.shards[loc.s][loc.idx]]))

\* T& Vector::at(index) followed by the assignment of x through the reference
at(mr, v, i, x) ==
  IF i >= v.total THEN [v |-> v, ops |-> <<>>, err |-> "out_of_range"]
  ELSE subscript_assign(mr, v, i, x)

\* Vector<T> for an element type T other than dpu_word_t (T is 8 bytes wide):
\* the Vector v with its serializer_ and deserializer_ members, "nullptr" when unset
Typed(v, ser, deser) ==
  [live |-> v.live, total |-> v.total, off |-> v.off, bytes |-> v.bytes,
   shards |-> v.shards, state |-> v.state, rel |-> v.rel, gone |-> v.gone,
   latest |-> v.latest, serializer_ |-> ser, deserializer_ |-> deser]

\* the serializer and deserializer the program sets: T to dpu_word_t and back,
\* element by element
to_word(x) == (x + 1) % WordMod
from_word(w) == (w + WordMod - 1) % WordMod
Serialize(shards) == [u \in DOMAIN shards |-> [k \in DOMAIN shards[u] |-> to_word(shards[u][k])]]
Deserialize(words) == [u \in DOMAIN words |-> [k \in DOMAIN words[u] |-> from_word(words[u][k])]]

\* a commit for T that marks the array Clean before it looks for the serializer
commit_T_mark_first(mr, v0) ==
  ByValue(v0, LAMBDA v :
  IF v.state # "HOST_DIRTY" THEN [mram |-> mr, v |-> v, ops |-> <<>>, err |-> "none"]
  ELSE IF v.serializer_ # "nullptr"
  THEN [mram |-> scatter(mr, Serialize(v.shards), v.off),
        v    |-> [v EXCEPT !.state = "CLEAN"],
        ops  |-> << <<"scatter", v.off>> >>, err |-> "none"]
  ELSE [mram |-> mr, v |-> [v EXCEPT !.state = "CLEAN"], ops |-> <<>>,
        err |-> "runtime_error"])

\* Vector::commit for T other than dpu_word_t
commit_T(mr, v0) ==
  ByValue(v0, LAMBDA v :
  IF v.state # "HOST_DIRTY" THEN [mram |-> mr, v |-> v, ops |-> <<>>, err |-> "none"]
  ELSE IF v.serializer_ # "nullptr"
  THEN [mram |-> scatter(mr, Serialize(v.shards), v.off),
        v    |-> [v EXCEPT !.state = "CLEAN"],
        ops  |-> << <<"scatter", v.off>> >>, err |-> "none"]
  ELSE [mram |-> mr, v |-> v, ops |-> <<>>, err |-> "runtime_error"])

\* Vector::pull_all for T other than dpu_word_t; D is mgr.num_dpus()
pull_all_T(mr, v0, D) ==
  ByValue(v0, LAMBDA v :
  IF v.state # "PIM_FRESH" THEN [v |-> v, ops |-> <<>>, err |-> "none"]
  ELSE IF v.deserializer_ # "nullptr"
  THEN LET gathered == gather(mr, [u \in 1..D |-> [k \in 1..(v.bytes \div WordBytes) |-> 0]],
                              v.bytes, v.off)
       IN  [v   |-> [v EXCEPT !.shards = Deserialize(gathered), !.state = "CLEAN"],
            ops |-> << <<"gather", v.off, v.bytes>> >>, err |-> "none"]
  ELSE [v |-> v, ops |-> <<>>, err |-> "runtime_error"])

\* T& Vector::operator[](i) for T other than dpu_word_t, followed by the
\* assignment of x through the reference
subscript_assign_T(mr, v, i, x, D) ==
  ByValue(pull_all_T(mr, v, D), LAMBDA p :
    IF p.err # "none" THEN [v |-> p.v, ops |-> p.ops, err |-> p.err]
    ELSE ByValue(locate(p.v, i), LAMBDA loc :
      IF loc.err # "none" THEN [v |-> p.v, ops |-> p.ops, err |-> loc.err]
      ELSE [v   |-> [p.v EXCEPT !.state = "HOST_DIRTY",
                                !.shards[loc.s][loc.idx] = x,
                                !.latest = [p.v.shards EXCEPT ![loc.s][loc.idx] = x]],
            ops |-> p.ops, err |-> "none"]))

\* const T& Vector::operator[](i) const for T other than dpu_word_t
subscript_const_T(mr, v, i, D) ==
  ByValue(pull_all_T(mr, v, D), LAMBDA p :
    IF p.err # "none" THEN [v |-> p.v, ops |-> p.ops, err |-> p.err, val |-> 0]
    ELSE ByValue(locate(p.v, i), LAMBDA loc :
      IF loc.err # "none" THEN [v |-> p.v, ops |-> p.ops, err |-> loc.err, val |-> 0]
      ELSE [v |-> p.v, ops |-> p.ops, err |-> "none", val |-> p.v.shards[loc.s][loc.idx]]))

\* Vector::operator=(const Vector&), this != &other
copy_assign(m, mr, dst, src) ==
  ByValue(deallocate_if_owner(m, dst), LAMBDA d :
  IF src.total > 0
  THEN ByValue(pull_all(mr, src), LAMBDA p :
       ByValue(build(d.m, d.v, src.total, 0), LAMBDA b :
         IF b.err # "none"
         THEN [m |-> b.m, dst |-> b.v, src |-> p.v, ops |-> p.ops, err |-> b.err]
         ELSE ByValue([s \in DOMAIN b.v.shards |->
                         [i \in DOMAIN b.v.shards[s] |->
                            IF s \in DOMAIN p.v.shards /\ i \in DOMAIN p.v.shards[s]
                            THEN p.v.shards[s][i] ELSE b.v.shards[s][i]]],
                      LAMBDA copied :
                [m   |-> b.m,
                 dst |-> [b.v EXCEPT !.shards = copied, !.latest = copied,
                                     !.state = "HOST_DIRTY"],
                 src |-> p.v, ops |-> p.ops, err |-> "none"])))
  ELSE [m |-> d.m, dst |-> reset_to_empty(GiveUp(d.v)), src |-> src,
        ops |-> <<>>, err |-> "none"])

(***************************************************************************)
(* run_kernel (pim_vector.hpp) and pim_operations.hpp                      *)
(***************************************************************************)
\* the program state the calls below thread through
World == [mgr |-> mgr, mram |-> mram, wram |-> wram, vec |-> vec, ops |-> <<>>]

\* bs.commit() for the Vector named a
DoCommit(W0, a) ==
  ByValue(W0, LAMBDA W : ByValue(commit(W.mram, W.vec[a]), LAMBDA c :
      [W EXCEPT !.mgr = IF c.ops # <<>> THEN ensure_loaded(@) ELSE @,
                !.mram = c.mram, !.vec[a] = c.v,
                !.ops = @ \o << <<"commit", a>> >> \o c.ops]))

RECURSIVE CommitAll(_, _)
CommitAll(W, ins) ==
  IF ins = <<>> THEN W ELSE CommitAll(DoCommit(W, Head(ins)), Tail(ins))

\* PIMManager::push_args
push_args(W0, args) ==
  ByValue(W0, LAMBDA W :
  [W EXCEPT !.mgr = ensure_loaded(@), !.wram = args, !.ops = @ \o << <<"push_args">> >>])

\* PIMManager::exec: sys_->exec() runs the loaded program on every DPU with the
\* arguments in its WRAM and returns when all have finished
exec(W0, g) ==
  ByValue(W0, LAMBDA W :
  [W EXCEPT !.mgr = ensure_loaded(@),
            !.mram = [u \in DOMAIN W.mram |->
                        IF u <= W.mgr.dpu_n THEN kernels(W.mram[u], W.wram, g)
                        ELSE W.mram[u]],
            !.ops = @ \o << <<"exec">> >>])

\* bs.invalidate_host() for the Vector named a
DoInvalidate(W0, a) ==
  ByValue(W0, LAMBDA W :
  [W EXCEPT !.vec[a] = invalidate_host(@), !.ops = @ \o << <<"invalidate_host", a>> >>])

RECURSIVE InvalidateAll(_, _)
InvalidateAll(W, outs) ==
  IF outs = <<>> THEN W ELSE InvalidateAll(DoInvalidate(W, Head(outs)), Tail(outs))

\* what the kernel left in the Blocks of the outputs becomes their latest contents
RECURSIVE NoteOutputs(_, _)
NoteOutputs(W0, outs) ==
  ByValue(W0, LAMBDA W :
  IF outs = <<>> THEN W
  ELSE NoteOutputs(
         [W EXCEPT !.vec[Head(outs)].latest =
             DeviceView(W.mram, W.vec[Head(outs)].off, W.vec[Head(outs)].shards)],
         Tail(outs)))

\* a run_kernel that launches before the arguments are pushed
run_kernel_exec_first(W, args, ins, outs, g) ==
  LET W1 == CommitAll(W, ins)
      W2 == NoteOutputs(exec(W1, g), outs)
      W3 == push_args(W2, args)
  IN  InvalidateAll(W3, outs)

\* run_kernel(args, in, out)
run_kernel(W, args, ins, outs, g) ==
  LET W1 == CommitAll(W, ins)
      W2 == push_args(W1, args)
      W3 == NoteOutputs(exec(W2, g), outs)
  IN  InvalidateAll(W3, outs)

\* detail::make_args for a two-operand kernel (B given); A is not empty
make_args(op, A, C, modulus, B) ==
  LET elems == A.bytes \div WordBytes
  IN  [A |-> make_array(A.off, elems), B |-> make_array(B.off, elems),
       C |-> make_array(C.off, elems), kernel |-> op, mod |-> modulus]

\* EltwiseAddMod(destination, op1, op2, modulus), the operands given by name
EltwiseAddMod(W0, dst, op1, op2, modulus, g) ==
  ByValue(W0, LAMBDA W :
  IF W.vec[op1].total = 0
  THEN [W EXCEPT !.ops = @ \o << <<"throw", "runtime_error">> >>]
  ELSE run_kernel(W, make_args("MOD_ADD", W.vec[op1], W.vec[dst], modulus, W.vec[op2]),
                  <<op1, op2>>, <<dst>>, g))

\* detail::make_args for a kernel with a scalar operand (B not given); A is
\* not empty
make_args_scalar(op, A, C, modulus, scalar) ==
  LET elems == A.bytes \div WordBytes
  IN  [A |-> make_array(A.off, elems), B |-> make_array(0, 0),
       C |-> make_array(C.off, elems), kernel |-> op, mod |-> modulus,
       scalar |-> scalar]

\* EltwiseAddScalarMod(destination, op1, scalar, modulus), the operands given
\* by name
EltwiseAddScalarMod(W0, dst, op1, scalar, modulus) ==
  ByValue(W0, LAMBDA W :
  IF W.vec[op1].total = 0
  THEN [W EXCEPT !.ops = @ \o << <<"throw", "runtime_error">> >>]
  ELSE run_kernel(W, make_args_scalar("MOD_ADD_SCALAR", W.vec[op1], W.vec[dst],
                                      modulus, scalar),
                  <<op1>>, <<dst>>, 0))

(***************************************************************************)
(* Initial state.                                                          *)
(***************************************************************************)
\* the names the program's Vector objects go by
Names == {"a", "b", "c"}
NameNo == [a \in Names |-> CASE a = "a" -> 1 [] a = "b" -> 2 [] OTHER -> 3]

\* DPU_INPUT_ARGUMENTS before any push
NoArgs ==
  [A |-> make_array(0, 0), B |-> make_array(0, 0), C |-> make_array(0, 0),
   kernel |-> "MOD_ADD", mod |-> 0]

\* the host threads of a multi-threaded program; a single-threaded program
\* leaves them idle
Threads == {1, 2}
NoThread == 0

\* what a thread is to call when it calls nothing
NoJob ==
  [op |-> "none", t |-> NoThread, nr |-> 0, elf |-> "", bytes |-> 0, blk |-> <<0, 0>>,
   n |-> 0, a |-> "", args |-> NoArgs]

\* a thread between two calls. todo lists the steps left of the call it is in,
\* pc is where it stands in the manager function at the head of todo ("call":
\* before the lock_guard, "locked": mutex held, "unlock": body done), touch the
\* manager members its last step read or wrote, D and blk the locals of build,
\* err the exception in flight, ran the arguments its exec found in WRAM
IdleThread ==
  [todo |-> <<>>, pc |-> "call", touch |-> {}, D |-> 0, blk |-> <<0, 0>>, err |-> "none",
   job |-> NoJob, ran |-> NoArgs]

InitHeap ==
  /\ heap = MramAllocator(HeapLimit)
  /\ handed = {}
  /\ live = {}
  /\ hist = <<>>

InitPim ==
  /\ shutdown_mode = FALSE
  /\ mgr = PIMManager0
  /\ mram = [u \in 1..HwDpus |-> [w \in 0..(MramWords - 1) |-> 0]]
  /\ wram = NoArgs
  /\ vec = [a \in Names |-> NoVector({})]
  /\ nsteps = 0
  /\ call = [op |-> "none"]
  /\ ops = <<>>
  /\ blocks = {}
  /\ threads = [t \in Threads |-> IdleThread]
  /\ pim_mutex_ = NoThread

Init == InitHeap /\ InitPim

(***************************************************************************)
(* Operations of the program on the manager and on Vectors.                *)
(***************************************************************************)
\* Vector::build divides by num_dpus(): with the manager uninitialised in
\* shutdown mode that is a division by zero, which the operations below leave out
CanBuild(n) == n = 0 \/ ~(shutdown_mode /\ mgr.dpu_n = 0)

\* one more operation, while the program has not reached MaxSteps of them
Tick == nsteps < MaxSteps /\ nsteps' = nsteps + 1

\* PIMManager::init(nr)
PIMInit(nr) ==
  /\ Tick
  /\ mgr' = init(mgr, nr, "main.dpu")
  /\ call' = [op |-> "init"]
  /\ ops' = <<>>
  /\ UNCHANGED <<heapVars, thrVars, blocks, shutdown_mode, mram, wram, vec>>

\* the name a new Vector object goes by: the first one free (names are
\* interchangeable)
NextName(a) == ~vec[a].live /\ \A b \in Names : ~vec[b].live => NameNo[a] <= NameNo[b]

\* Vector<dpu_word_t> a(n); a constructor that throws leaves no object
Construct(a, n) ==
  /\ Tick
  /\ NextName(a)
  /\ CanBuild(n)
  /\ \E b \in {build(mgr, EmptyVector(vec[a].gone), n, 0)} :
         /\ mgr' = b.m
         /\ vec' = [vec EXCEPT ![a] = IF b.err = "none" THEN b.v ELSE NoVector(vec[a].gone)]
         /\ call' = [op |-> "Vector", a |-> a, n |-> n, err |-> b.err]
  /\ ops' = <<>>
  /\ UNCHANGED <<heapVars, thrVars, blocks, shutdown_mode, mram, wram>>

\* Vector<dpu_word_t> a(src)
CopyConstruct(a, src) ==
  /\ Tick
  /\ NextName(a) /\ vec[src].live
  /\ CanBuild(vec[src].total)
  /\ \E r \in {copy_assign(mgr, mram, EmptyVector(vec[a].gone), vec[src])} :
         /\ mgr' = r.m
         /\ vec' = [vec EXCEPT ![a] = IF r.err = "none" THEN r.dst ELSE NoVector(vec[a].gone),
                               ![src] = r.src]
         /\ call' = [op |-> "Vector(const&)", a |-> a, src |-> src, err |-> r.err]
         /\ ops' = r.ops
  /\ UNCHANGED <<heapVars, thrVars, blocks, shutdown_mode, mram, wram>>

\* a = src
CopyAssign(a, src) ==
  /\ Tick
  /\ vec[a].live /\ vec[src].live /\ a # src
  /\ CanBuild(vec[src].total)
  /\ \E r \in {copy_assign(mgr, mram, vec[a], vec[src])} :
         /\ mgr' = r.m
         /\ vec' = [vec EXCEPT ![a] = r.dst, ![src] = r.src]
         /\ call' = [op |-> "operator=(const&)", a |-> a, src |-> src, err |-> r.err]
         /\ ops' = r.ops
  /\ UNCHANGED <<heapVars, thrVars, blocks, shutdown_mode, mram, wram>>

\* a = std::move(src)
MoveAssign(a, src) ==
  /\ Tick
  /\ vec[a].live /\ vec[src].live /\ a # src
  /\ \E r \in {move_assign(mgr, vec[a], vec[src])} :
         /\ mgr' = r.m
         /\ vec' = [vec EXCEPT ![a] = r.dst, ![src] = r.src]
  /\ call' = [op |-> "operator=(&&)", a |-> a, src |-> src]
  /\ ops' = <<>>
  /\ UNCHANGED <<heapVars, thrVars, blocks, shutdown_mode, mram, wram>>

\* a.resize(n)
Resize(a, n) ==
  /\ Tick
  /\ vec[a].live
  /\ CanBuild(n)
  /\ \E r \in {resize(mgr, vec[a], n, 0)} :
         /\ mgr' = r.m
         /\ vec' = [vec EXCEPT ![a] = r.v]
         /\ call' = [op |-> "resize", a |-> a, n |-> n, err |-> r.err]
  /\ ops' = <<>>
  /\ UNCHANGED <<heapVars, thrVars, blocks, shutdown_mode, mram, wram>>

\* a.clear()
Clear(a) ==
  /\ Tick
  /\ vec[a].live
  /\ \E r \in {clear(mgr, vec[a])} :
         /\ mgr' = r.m
         /\ vec' = [vec EXCEPT ![a] = r.v]
  /\ call' = [op |-> "clear", a |-> a]
  /\ ops' = <<>>
  /\ UNCHANGED <<heapVars, thrVars, blocks, shutdown_mode, mram, wram>>

\* the end of a's lifetime
Destroy(a) ==
  /\ Tick
  /\ vec[a].live
  /\ \E r \in {destroy(mgr, vec[a])} :
         /\ mgr' = r.m
         /\ vec' = [vec EXCEPT ![a] = r.v]
  /\ call' = [op |-> "~Vector", a |-> a]
  /\ ops' = <<>>
  /\ UNCHANGED <<heapVars, thrVars, blocks, shutdown_mode, mram, wram>>

\* ~ShutdownHandler, at the end of the program
Shutdown ==
  /\ Tick
  /\ ~shutdown_mode
  /\ shutdown_mode' = TRUE
  /\ call' = [op |-> "~ShutdownHandler"]
  /\ ops' = <<>>
  /\ UNCHANGED <<heapVars, thrVars, blocks, mgr, mram, wram, vec>>

\* a[i] = x, i < a.size()
Write(a, i, x) ==
  /\ Tick
  /\ vec[a].live /\ i < vec[a].total
  /\ \E r \in {subscript_assign(mram, vec[a], i, x)} :
         /\ vec' = [vec EXCEPT ![a] = r.v]
         /\ ops' = r.ops
         /\ call' = [op |-> "operator[]", a |-> a, i |-> i, pre |-> vec[a].state,
                      err |-> r.err]
  /\ UNCHANGED <<heapVars, thrVars, blocks, shutdown_mode, mgr, mram, wram>>

\* ... = a[i] on a Vector that is not const, i < a.size(): the same overload,
\* nothing assigned through the reference
Read(a, i) ==
  /\ Tick
  /\ vec[a].live /\ i < vec[a].total
  /\ \E r \in {subscript_assign(mram, vec[a], i, subscript_const(mram, vec[a], i).val)} :
         /\ vec' = [vec EXCEPT ![a] = [r.v EXCEPT !.latest = vec[a].latest]]
         /\ ops' = r.ops
         /\ call' = [op |-> "operator[]", a |-> a, i |-> i, pre |-> vec[a].state,
                      err |-> r.err]
  /\ UNCHANGED <<heapVars, thrVars, blocks, shutdown_mode, mgr, mram, wram>>

\* ... = a[i] on a const Vector, i < a.size()
ConstRead(a, i) ==
  /\ Tick
  /\ vec[a].live /\ i < vec[a].total
  /\ \E r \in {subscript_const(mram, vec[a], i)} :
         /\ vec' = [vec EXCEPT ![a] = r.v]
         /\ ops' = r.ops
         /\ call' = [op |-> "operator[] const", a |-> a, i |-> i, pre |-> vec[a].state,
                      err |-> r.err, val |-> r.val]
  /\ UNCHANGED <<heapVars, thrVars, blocks, shutdown_mode, mgr, mram, wram>>

\* a.commit() on an array with its buffers built
Commit(a) ==
  /\ Tick
  /\ vec[a].live /\ vec[a].total > 0
  /\ \E W \in {DoCommit(World, a)} :
         /\ vec' = W.vec
         /\ mram' = W.mram
         /\ mgr' = W.mgr
         /\ ops' = Tail(W.ops)
  /\ call' = [op |-> "commit", a |-> a, pre |-> vec[a].state]
  /\ UNCHANGED <<heapVars, thrVars, blocks, shutdown_mode, wram>>

\* a.invalidate_host()
InvalidateHost(a) ==
  /\ Tick
  /\ vec[a].live
  /\ vec' = [vec EXCEPT ![a] = invalidate_host(@)]
  /\ call' = [op |-> "invalidate_host", a |-> a, pre |-> vec[a].state]
  /\ ops' = <<>>
  /\ UNCHANGED <<heapVars, thrVars, blocks, shutdown_mode, mgr, mram, wram>>

\* what a tasklet may find behind the null buf_B (one word stands for all it
\* reads there); it matters only to a dispatch whose B.offset is 0
Stray == {0, 1}
StrayFor(op2) == IF vec[op2].off = 0 THEN Stray ELSE {0}

\* the same, also for a kernel that reads past the end of MRAM
StrayAt(op1, op2) ==
  IF \E x \in {op1, op2} : vec[x].off + vec[op1].bytes > MramLimit
  THEN Stray ELSE StrayFor(op2)

\* EltwiseAddMod(dst, op1, op2, m): op2 has its buffers built
AddMod(dst, op1, op2, m) ==
  /\ Tick
  /\ vec[dst].live /\ vec[op1].live /\ vec[op2].live
  /\ vec[op2].total > 0
  /\ mgr.initialised
  /\ \E W \in {EltwiseAddMod(World, dst, op1, op2, m, g) : g \in StrayAt(op1, op2)} :
         /\ mgr' = W.mgr
         /\ mram' = W.mram
         /\ wram' = W.wram
         /\ vec' = W.vec
         /\ ops' = W.ops
  /\ call' = [op |-> "EltwiseAddMod", dst |-> dst, op1 |-> op1, op2 |-> op2, m |-> m,
               A |-> vec[op1].latest, B |-> vec[op2].latest,
               err |-> IF vec[op1].total = 0 THEN "runtime_error" ELSE "none"]
  /\ UNCHANGED <<heapVars, thrVars, blocks, shutdown_mode>>

(***************************************************************************)
(* The program using arrays and dispatching EltwiseAddMod.                 *)
(***************************************************************************)
\* array lengths, element indices, element values and moduli tried
Lens == {0, 2 * ChunkAlign}
Indices == {0, ChunkAlign}
Values == {2}
Moduli == {3}

NextUse ==
  \/ PIMInit(DPU_ALLOCATE_ALL)
  \/ \E a \in Names, n \in Lens : Construct(a, n)
  \/ \E a \in Names, i \in Indices, x \in Values : Write(a, i, x)
  \/ \E a \in Names, i \in Indices : Read(a, i)
  \/ \E a \in Names, i \in Indices : ConstRead(a, i)
  \/ \E a \in Names : Commit(a)
  \/ \E dst \in Names, op1 \in Names, op2 \in Names, m \in Moduli :
        AddMod(dst, op1, op2, m)

Spec == Init /\ [][NextUse]_vars

\* the same program also calling invalidate_host itself
NextApi ==
  \/ NextUse
  \/ \E a \in Names : InvalidateHost(a)

SpecApi == Init /\ [][NextApi]_vars

(***************************************************************************)
(* The program creating, assigning, resizing and destroying arrays.        *)
(***************************************************************************)
LifeLens == {0, ChunkAlign, 3 * ChunkAlign}

NextLife ==
  \/ PIMInit(DPU_ALLOCATE_ALL)
  \/ \E a \in Names, n \in LifeLens : Construct(a, n)
  \/ \E a \in Names, src \in Names : CopyConstruct(a, src)
  \/ \E a \in Names, src \in Names : CopyAssign(a, src)
  \/ \E a \in Names, src \in Names : MoveAssign(a, src)
  \/ \E a \in Names, n \in LifeLens : Resize(a, n)
  \/ \E a \in Names : Clear(a)
  \/ \E a \in Names : Destroy(a)
  \/ Shutdown

SpecLife == Init /\ [][NextLife]_vars

(***************************************************************************)
(* The program resizing arrays in every coherence state.                   *)
(***************************************************************************)
\* fill values given to resize(n, value)
Fills == {1}

\* a.resize(n, x)
ResizeFill(a, n, x) ==
  /\ Tick
  /\ vec[a].live
  /\ CanBuild(n)
  /\ \E r \in {resize(mgr, vec[a], n, x)} :
         /\ mgr' = r.m
         /\ vec' = [vec EXCEPT ![a] = r.v]
         /\ call' = [op |-> "resize", a |-> a, n |-> n, fill |-> x, err |-> r.err]
  /\ ops' = <<>>
  /\ UNCHANGED <<heapVars, thrVars, blocks, shutdown_mode, mram, wram>>

NextResize ==
  \/ \E a \in Names, n \in LifeLens : Construct(a, n)
  \/ \E a \in Names, n \in LifeLens : Resize(a, n)
  \/ \E a \in Names, n \in LifeLens, x \in Fills : ResizeFill(a, n, x)
  \/ \E a \in Names : Commit(a)
  \/ \E a \in Names : InvalidateHost(a)

SpecResize == Init /\ [][NextResize]_vars

(***************************************************************************)
(* The program indexing arrays, also past their end.                       *)
(***************************************************************************)
\* a[i] on a Vector that is not const, i >= a.size()
IndexPast(a, i) ==
  /\ Tick
  /\ vec[a].live /\ i >= vec[a].total
  /\ \E r \in {subscript_assign(mram, vec[a], i, 0)} :
         /\ vec' = [vec EXCEPT ![a] = r.v]
         /\ ops' = r.ops
         /\ call' = [op |-> "operator[]", a |-> a, i |-> i, pre |-> vec[a].state,
                      err |-> r.err]
  /\ UNCHANGED <<heapVars, thrVars, blocks, shutdown_mode, mgr, mram, wram>>

\* a[i] on a const Vector, i >= a.size()
ConstIndexPast(a, i) ==
  /\ Tick
  /\ vec[a].live /\ i >= vec[a].total
  /\ \E r \in {subscript_const(mram, vec[a], i)} :
         /\ vec' = [vec EXCEPT ![a] = r.v]
         /\ ops' = r.ops
         /\ call' = [op |-> "operator[] const", a |-> a, i |-> i, pre |-> vec[a].state,
                      err |-> r.err, val |-> r.val]
  /\ UNCHANGED <<heapVars, thrVars, blocks, shutdown_mode, mgr, mram, wram>>

\* ... = a.at(i), any i: nothing assigned through the reference
At(a, i) ==
  /\ Tick
  /\ vec[a].live
  /\ \E r \in {at(mram, vec[a], i, subscript_const(mram, vec[a], i).val)} :
         /\ vec' = [vec EXCEPT ![a] = [r.v EXCEPT !.latest = vec[a].latest]]
         /\ ops' = r.ops
         /\ call' = [op |-> "at", a |-> a, i |-> i, pre |-> vec[a].state, err |-> r.err]
  /\ UNCHANGED <<heapVars, thrVars, blocks, shutdown_mode, mgr, mram, wram>>

\* indices tried: inside and just past the arrays of Lens
AccessIndices == {0, 2 * ChunkAlign}

NextAccess ==
  \/ \E a \in Names, n \in Lens : Construct(a, n)
  \/ \E a \in Names, i \in Indices, x \in Values : Write(a, i, x)
  \/ \E a \in Names : Commit(a)
  \/ \E a \in Names : InvalidateHost(a)
  \/ \E a \in Names, i \in AccessIndices : IndexPast(a, i)
  \/ \E a \in Names, i \in AccessIndices : ConstIndexPast(a, i)
  \/ \E a \in Names, i \in AccessIndices : At(a, i)

SpecAccess == Init /\ [][NextAccess]_vars

(***************************************************************************)
(* The program calling the manager itself.                                 *)
(***************************************************************************)
\* unit counts, programs, Block sizes and MRAM offsets tried
UnitCounts == {1, HwDpus, DPU_ALLOCATE_ALL}
Elfs == {"main.dpu", "other.dpu"}
MgrSizes == {8, 16, MramLimit - 8}
MgrOffsets == {0, 8}

\* PIMManager::init(nr, elf)
InitWith(nr, elf) ==
  /\ Tick
  /\ mgr' = init(mgr, nr, elf)
  /\ call' = [op |-> "init", nr |-> nr, elf |-> elf]
  /\ ops' = <<>>
  /\ UNCHANGED <<heapVars, thrVars, blocks, shutdown_mode, mram, wram, vec>>

\* PIMManager::instance().allocate_uniform(bytes)
AllocateUniform(bytes) ==
  /\ Tick
  /\ \E r \in {allocate_uniform(mgr, bytes)} :
         /\ mgr' = r.m
         /\ blocks' = IF r.err = "none" THEN blocks \cup {<<r.off, r.bytes>>} ELSE blocks
         /\ call' = [op |-> "allocate_uniform", bytes |-> bytes, off |-> r.off,
                      err |-> r.err]
  /\ ops' = <<>>
  /\ UNCHANGED <<heapVars, thrVars, shutdown_mode, mram, wram, vec>>

\* PIMManager::instance().deallocate(b) of a Block the program holds
Deallocate(b) ==
  /\ Tick
  /\ b \in blocks
  /\ mgr' = deallocate(mgr, b[1], b[2])
  /\ blocks' = blocks \ {b}
  /\ call' = [op |-> "deallocate", off |-> b[1], bytes |-> b[2]]
  /\ ops' = <<>>
  /\ UNCHANGED <<heapVars, thrVars, shutdown_mode, mram, wram, vec>>

\* the buffers the program hands to scatter: k of them, of one word each
Buffers(k) == [u \in 1..k |-> <<1>>]

\* PIMManager::instance().scatter(per_dpu, off) after init, one buffer per DPU
Scatter(off) ==
  /\ Tick
  /\ mgr.initialised
  /\ mgr' = ensure_loaded(mgr)
  /\ mram' = scatter(mram, Buffers(mgr.dpu_n), off)
  /\ call' = [op |-> "scatter", count |-> mgr.dpu_n, off |-> off, err |-> "none"]
  /\ ops' = <<>>
  /\ UNCHANGED <<heapVars, thrVars, blocks, shutdown_mode, wram, vec>>

\* PIMManager::instance().gather(data, bytes, off) after init, into buffers of
\* one word that the program then drops
Gather(off) ==
  /\ Tick
  /\ mgr.initialised
  /\ mgr' = ensure_loaded(mgr)
  /\ call' = [op |-> "gather", off |-> off,
               data |-> gather(mram, [u \in 1..mgr.dpu_n |-> <<0>>], WordBytes, off)]
  /\ ops' = <<>>
  /\ UNCHANGED <<heapVars, thrVars, blocks, shutdown_mode, mram, wram, vec>>

\* PIMManager::instance().push_args(&args, sizeof args) after init
PushArgs(m) ==
  /\ Tick
  /\ mgr.initialised
  /\ \E W \in {push_args(World, [NoArgs EXCEPT !.mod = m])} :
         /\ mgr' = W.mgr
         /\ wram' = W.wram
  /\ call' = [op |-> "push_args", mod |-> m]
  /\ ops' = <<>>
  /\ UNCHANGED <<heapVars, thrVars, blocks, shutdown_mode, mram, vec>>

\* PIMManager::instance().exec() after init
Exec ==
  /\ Tick
  /\ mgr.initialised
  /\ \E W \in {exec(World, 0)} :
         /\ mgr' = W.mgr
         /\ mram' = W.mram
  /\ call' = [op |-> "exec"]
  /\ ops' = <<>>
  /\ UNCHANGED <<heapVars, thrVars, blocks, shutdown_mode, wram, vec>>

NextMgr ==
  \/ \E nr \in UnitCounts, elf \in Elfs : InitWith(nr, elf)
  \/ \E bytes \in MgrSizes : AllocateUniform(bytes)
  \/ \E b \in blocks : Deallocate(b)
  \/ \E off \in MgrOffsets : Scatter(off)
  \/ \E off \in MgrOffsets : Gather(off)
  \/ \E m \in Moduli : PushArgs(m)
  \/ Exec

SpecMgr == Init /\ [][NextMgr]_vars

(***************************************************************************)
(* The program scattering through the manager of host.hpp.                 *)
(***************************************************************************)
\* numbers of buffers handed to scatter: none, fewer, as many, more than DPUs
BufferCounts == 0..(HwDpus + 1)
\* the word in every buffer
BufferWords == {1, 2}

\* PIMManager::instance().scatter(per_dpu, heap, off) after init, with k
\* buffers of one word x
HostScatter(k, off, x) ==
  /\ Tick
  /\ mgr.initialised
  /\ \E r \in {scatter_checked(mgr, mram, [u \in 1..k |-> <<x>>], off)} :
         /\ mgr' = r.m
         /\ mram' = r.mram
         /\ call' = [op |-> "scatter", count |-> k, off |-> off, x |-> x, err |-> r.err]
  /\ ops' = <<>>
  /\ UNCHANGED <<heapVars, thrVars, blocks, shutdown_mode, wram, vec>>

NextHost ==
  \/ \E nr \in UnitCounts, elf \in Elfs : InitWith(nr, elf)
  \/ \E k \in BufferCounts, off \in MgrOffsets, x \in BufferWords : HostScatter(k, off, x)
  \/ \E off \in MgrOffsets : Gather(off)

SpecHost == Init /\ [][NextHost]_vars

(***************************************************************************)
(* The program releasing Blocks and arrays around static teardown.         *)
(***************************************************************************)
\* Block sizes the program asks allocate_uniform for here
TeardownSizes == {8, 16}
\* array lengths constructed here
TeardownLens == {ChunkAlign}

NextTeardown ==
  \/ PIMInit(DPU_ALLOCATE_ALL)
  \/ \E a \in Names, n \in TeardownLens : Construct(a, n)
  \/ \E bytes \in TeardownSizes : AllocateUniform(bytes)
  \/ \E b \in blocks : Deallocate(b)
  \/ \E a \in Names : Clear(a)
  \/ \E a \in Names : Destroy(a)
  \/ Shutdown

SpecTeardown == Init /\ [][NextTeardown]_vars

(***************************************************************************)
(* A program with two host threads, each calling the manager, building its *)
(* own array and dispatching kernels on it.                                *)
(***************************************************************************)
\* the array each thread works on: the arrays of the two threads are disjoint
OwnArray == [t \in Threads |-> IF t = 1 THEN "a" ELSE "b"]

\* the manager functions that begin with std::lock_guard lock(pim_mutex_)
Locked == {"init", "allocate_uniform", "deallocate", "scatter", "gather", "push_args", "exec"}

\* Block sizes, array lengths and moduli the threads use
ThreadSizes == {8}
ThreadLens == {ChunkAlign}
ThreadModuli == {3, 5}

\* the calls thread t may make next
ThreadJobs(t) ==
  LET own == OwnArray[t]
      J   == [NoJob EXCEPT !.t = t, !.a = own]
  IN  {[J EXCEPT !.op = "init", !.nr = DPU_ALLOCATE_ALL, !.elf = "main.dpu"]}
      \cup {[J EXCEPT !.op = "allocate_uniform", !.bytes = b] : b \in ThreadSizes}
      \cup {[J EXCEPT !.op = "deallocate", !.blk = b] : b \in blocks}
      \cup (IF mgr.initialised THEN {[J EXCEPT !.op = "gather"]} ELSE {})
      \cup (IF ~vec[own].live
            THEN {[J EXCEPT !.op = "Vector", !.n = n, !.nr = DPU_ALLOCATE_ALL,
                            !.elf = "main.dpu"] : n \in ThreadLens}
            ELSE {[J EXCEPT !.op = "run_kernel",
                            !.args = make_args("MOD_ADD", vec[own], vec[own], m, vec[own])] :
                    m \in ThreadModuli})

\* what each call does, in order: Vector(n) is build (the array is new, so
\* deallocate_if_owner does nothing), run_kernel has the array as input and output
Steps(j) ==
  CASE j.op = "Vector" -> <<"num_dpus() == 0", "num_dpus()", "allocate_uniform", "assign">>
    [] j.op = "run_kernel" -> <<"commit", "push_args", "exec", "invalidate_host">>
    [] OTHER -> <<j.op>>

\* thread t stands at step f of its call, outside any critical section
At_(t, f) ==
  /\ threads[t].todo # <<>>
  /\ Head(threads[t].todo) = f
  /\ threads[t].pc = "call"

\* thread t is inside manager function f with the mutex held, body not yet run
Inside(t, f) ==
  /\ threads[t].todo # <<>>
  /\ Head(threads[t].todo) = f
  /\ threads[t].pc = "locked"

\* thread t begins call j
Start(t, j) ==
  /\ Tick
  /\ threads[t].todo = <<>>
  /\ j \in ThreadJobs(t)
  /\ threads' = [threads EXCEPT ![t] = [IdleThread EXCEPT !.todo = Steps(j), !.job = j]]
  /\ blocks' = IF j.op = "deallocate" THEN blocks \ {j.blk} ELSE blocks
  /\ call' = j
  /\ ops' = <<>>
  /\ UNCHANGED <<heapVars, pim_mutex_, shutdown_mode, mgr, mram, wram, vec>>

\* std::lock_guard<std::mutex> lock(pim_mutex_): waits until the mutex is free
Lock(t) ==
  /\ threads[t].todo # <<>>
  /\ Head(threads[t].todo) \in Locked
  /\ threads[t].pc = "call"
  /\ pim_mutex_ = NoThread
  /\ pim_mutex_' = t
  /\ threads' = [threads EXCEPT ![t].pc = "locked", ![t].touch = {}]
  /\ UNCHANGED <<heapVars, shutdown_mode, mgr, mram, wram, vec, nsteps, call, ops, blocks>>

\* the end of the function, or an exception leaving it: ~lock_guard
Unlock(t) ==
  /\ threads[t].pc = "unlock"
  /\ pim_mutex_' = NoThread
  /\ threads' = [threads EXCEPT ![t].pc = "call", ![t].touch = {},
                                ![t].todo = IF threads[t].err # "none" THEN <<>> ELSE Tail(@)]
  /\ UNCHANGED <<heapVars, shutdown_mode, mgr, mram, wram, vec, nsteps, call, ops, blocks>>

\* the body of PIMManager::init
LockedInit(t) ==
  /\ Inside(t, "init")
  /\ mgr' = init(mgr, threads[t].job.nr, threads[t].job.elf)
  /\ threads' = [threads EXCEPT ![t].pc = "unlock",
                                ![t].touch = {"initialised_", "alloc_", "dpu_n_", "elf_path_",
                                              "loaded_"}]
  /\ UNCHANGED <<heapVars, pim_mutex_, shutdown_mode, mram, wram, vec, nsteps, call, ops, blocks>>

\* the body of PIMManager::allocate_uniform
LockedAllocate(t) ==
  /\ Inside(t, "allocate_uniform")
  /\ \E r \in {allocate_uniform(mgr, threads[t].job.bytes)} :
         /\ mgr' = r.m
         /\ threads' = [threads EXCEPT ![t].pc = "unlock", ![t].touch = {"alloc_"},
                                       ![t].blk = <<r.off, r.bytes>>, ![t].err = r.err]
         /\ blocks' = IF threads[t].job.op = "allocate_uniform" /\ r.err = "none"
                      THEN blocks \cup {<<r.off, r.bytes>>} ELSE blocks
  /\ UNCHANGED <<heapVars, pim_mutex_, shutdown_mode, mram, wram, vec, nsteps, call, ops>>

\* the body of PIMManager::deallocate
LockedDeallocate(t) ==
  /\ Inside(t, "deallocate")
  /\ mgr' = deallocate(mgr, threads[t].job.blk[1], threads[t].job.blk[2])
  /\ threads' = [threads EXCEPT ![t].pc = "unlock", ![t].touch = {"alloc_"}]
  /\ UNCHANGED <<heapVars, pim_mutex_, shutdown_mode, mram, wram, vec, nsteps, call, ops, blocks>>

\* the body of PIMManager::scatter, called by commit of the thread's array
LockedScatter(t) ==
  /\ Inside(t, "scatter")
  /\ \E W \in {DoCommit(World, OwnArray[t])} :
         /\ mgr' = W.mgr
         /\ mram' = W.mram
         /\ vec' = W.vec
  /\ threads' = [threads EXCEPT ![t].pc = "unlock", ![t].touch = {"loaded_", "elf_path_"}]
  /\ UNCHANGED <<heapVars, pim_mutex_, shutdown_mode, wram, nsteps, call, ops, blocks>>

\* the body of PIMManager::gather, into buffers the thread then drops
LockedGather(t) ==
  /\ Inside(t, "gather")
  /\ mgr' = ensure_loaded(mgr)
  /\ threads' = [threads EXCEPT ![t].pc = "unlock", ![t].touch = {"loaded_", "elf_path_"}]
  /\ UNCHANGED <<heapVars, pim_mutex_, shutdown_mode, mram, wram, vec, nsteps, call, ops, blocks>>

\* the body of PIMManager::push_args
LockedPushArgs(t) ==
  /\ Inside(t, "push_args")
  /\ \E W \in {push_args(World, threads[t].job.args)} :
         /\ mgr' = W.mgr
         /\ wram' = W.wram
  /\ threads' = [threads EXCEPT ![t].pc = "unlock", ![t].touch = {"loaded_", "elf_path_"}]
  /\ UNCHANGED <<heapVars, pim_mutex_, shutdown_mode, mram, vec, nsteps, call, ops, blocks>>

\* the body of PIMManager::exec: the DPUs run with the arguments now in WRAM
LockedExec(t) ==
  /\ Inside(t, "exec")
  /\ \E W \in {NoteOutputs(exec(World, g), <<OwnArray[t]>>) : g \in StrayFor(OwnArray[t])} :
         /\ mgr' = W.mgr
         /\ mram' = W.mram
         /\ vec' = W.vec
  /\ threads' = [threads EXCEPT ![t].pc = "unlock", ![t].touch = {"loaded_", "elf_path_"},
                                ![t].ran = wram]
  /\ UNCHANGED <<heapVars, pim_mutex_, shutdown_mode, wram, nsteps, call, ops, blocks>>

\* build: if (mgr.num_dpus() == 0) PIMManager::init();
NumDpusIsZero(t) ==
  /\ At_(t, "num_dpus() == 0")
  /\ threads' = [threads EXCEPT ![t].touch = {"dpu_n_"},
                                ![t].todo = IF mgr.dpu_n = 0 THEN <<"init">> \o Tail(@)
                                            ELSE Tail(@)]
  /\ UNCHANGED <<heapVars, pim_mutex_, shutdown_mode, mgr, mram, wram, vec, nsteps, call, ops,
                 blocks>>

\* build: unsigned D = mgr.num_dpus(); chunk_ and aligned_bytes from it
NumDpus(t) ==
  /\ At_(t, "num_dpus()")
  /\ threads' = [threads EXCEPT
                   ![t].touch = {"dpu_n_"},
                   ![t].D = mgr.dpu_n,
                   ![t].job.bytes = (((ChunkLen(threads[t].job.n, mgr.dpu_n) * WordBytes) + 7)
                                       \div 8) * 8,
                   ![t].todo = Tail(@)]
  /\ UNCHANGED <<heapVars, pim_mutex_, shutdown_mode, mgr, mram, wram, vec, nsteps, call, ops,
                 blocks>>

\* build: shard_ = (the Block); shards_.assign(D, chunk_ of fill); HOST_DIRTY
Assign(t) ==
  /\ At_(t, "assign")
  /\ \E sh \in {[u \in 1..threads[t].D |->
                   [k \in 1..ChunkLen(threads[t].job.n, threads[t].D) |-> 0]]} :
       vec' = [vec EXCEPT ![OwnArray[t]] =
                 [EmptyVector(@.gone) EXCEPT
                    !.total = threads[t].job.n, !.off = threads[t].blk[1],
                    !.bytes = threads[t].blk[2], !.shards = sh, !.latest = sh,
                    !.state = "HOST_DIRTY"]]
  /\ threads' = [threads EXCEPT ![t].touch = {}, ![t].todo = Tail(@)]
  /\ UNCHANGED <<heapVars, pim_mutex_, shutdown_mode, mgr, mram, wram, nsteps, call, ops, blocks>>

\* commit: if (state_ != HOST_DIRTY) return; otherwise mgr.scatter(...)
CommitTest(t) ==
  /\ At_(t, "commit")
  /\ threads' = [threads EXCEPT
                   ![t].touch = {},
                   ![t].todo = IF vec[OwnArray[t]].state = "HOST_DIRTY"
                               THEN <<"scatter">> \o Tail(@) ELSE Tail(@)]
  /\ UNCHANGED <<heapVars, pim_mutex_, shutdown_mode, mgr, mram, wram, vec, nsteps, call, ops,
                 blocks>>

\* run_kernel: bs.invalidate_host() for the output
InvalidateOut(t) ==
  /\ At_(t, "invalidate_host")
  /\ vec' = [vec EXCEPT ![OwnArray[t]] = invalidate_host(@)]
  /\ threads' = [threads EXCEPT ![t].touch = {}, ![t].todo = Tail(@)]
  /\ UNCHANGED <<heapVars, pim_mutex_, shutdown_mode, mgr, mram, wram, nsteps, call, ops, blocks>>

NextThreads ==
  \/ \E t \in Threads : \E j \in ThreadJobs(t) : Start(t, j)
  \/ \E t \in Threads : Lock(t)
  \/ \E t \in Threads : Unlock(t)
  \/ \E t \in Threads : LockedInit(t)
  \/ \E t \in Threads : LockedAllocate(t)
  \/ \E t \in Threads : LockedDeallocate(t)
  \/ \E t \in Threads : LockedScatter(t)
  \/ \E t \in Threads : LockedGather(t)
  \/ \E t \in Threads : LockedPushArgs(t)
  \/ \E t \in Threads : LockedExec(t)
  \/ \E t \in Threads : NumDpusIsZero(t)
  \/ \E t \in Threads : NumDpus(t)
  \/ \E t \in Threads : Assign(t)
  \/ \E t \in Threads : CommitTest(t)
  \/ \E t \in Threads : InvalidateOut(t)

SpecThreads == Init /\ [][NextThreads]_vars

(***************************************************************************)
(* The program using arrays of an element type other than dpu_word_t.      *)
(***************************************************************************)
\* array lengths built here
TypedLens == {2 * ChunkAlign}

\* Vector<T> a(n)
TypedConstruct(a, n) ==
  /\ Tick
  /\ NextName(a)
  /\ CanBuild(n)
  /\ \E b \in {build(mgr, EmptyVector(vec[a].gone), n, 0)} :
         /\ mgr' = b.m
         /\ vec' = [vec EXCEPT ![a] = IF b.err = "none" THEN Typed(b.v, "nullptr", "nullptr")
                                      ELSE NoVector(vec[a].gone)]
         /\ call' = [op |-> "Vector", a |-> a, n |-> n, err |-> b.err]
  /\ ops' = <<>>
  /\ UNCHANGED <<heapVars, thrVars, blocks, shutdown_mode, mram, wram>>

\* a.set_serializer(to_word element by element)
SetSerializer(a) ==
  /\ Tick
  /\ vec[a].live
  /\ vec' = [vec EXCEPT ![a].serializer_ = "Serialize"]
  /\ call' = [op |-> "set_serializer", a |-> a]
  /\ ops' = <<>>
  /\ UNCHANGED <<heapVars, thrVars, blocks, shutdown_mode, mgr, mram, wram>>

\* a.set_deserializer(from_word element by element)
SetDeserializer(a) ==
  /\ Tick
  /\ vec[a].live
  /\ vec' = [vec EXCEPT ![a].deserializer_ = "Deserialize"]
  /\ call' = [op |-> "set_deserializer", a |-> a]
  /\ ops' = <<>>
  /\ UNCHANGED <<heapVars, thrVars, blocks, shutdown_mode, mgr, mram, wram>>

\* a[i] = x
TypedWrite(a, i, x) ==
  /\ Tick
  /\ vec[a].live /\ i < vec[a].total
  /\ \E r \in {subscript_assign_T(mram, vec[a], i, x, mgr.dpu_n)} :
         /\ vec' = [vec EXCEPT ![a] = r.v]
         /\ ops' = r.ops
         /\ call' = [op |-> "operator[]", a |-> a, i |-> i, pre |-> vec[a].state,
                      err |-> r.err]
  /\ UNCHANGED <<heapVars, thrVars, blocks, shutdown_mode, mgr, mram, wram>>

\* ... = a[i] on a const Vector
TypedRead(a, i) ==
  /\ Tick
  /\ vec[a].live /\ i < vec[a].total
  /\ \E r \in {subscript_const_T(mram, vec[a], i, mgr.dpu_n)} :
         /\ vec' = [vec EXCEPT ![a] = r.v]
         /\ ops' = r.ops
         /\ call' = [op |-> "operator[] const", a |-> a, i |-> i, pre |-> vec[a].state,
                      err |-> r.err, val |-> r.val]
  /\ UNCHANGED <<heapVars, thrVars, blocks, shutdown_mode, mgr, mram, wram>>

\* a.commit()
TypedCommit(a) ==
  /\ Tick
  /\ vec[a].live /\ vec[a].total > 0
  /\ \E c \in {commit_T(mram, vec[a])} :
         /\ vec' = [vec EXCEPT ![a] = c.v]
         /\ mram' = c.mram
         /\ mgr' = IF c.ops # <<>> THEN ensure_loaded(mgr) ELSE mgr
         /\ ops' = c.ops
         /\ call' = [op |-> "commit", a |-> a, pre |-> vec[a].state, err |-> c.err]
  /\ UNCHANGED <<heapVars, thrVars, blocks, shutdown_mode, wram>>

NextTyped ==
  \/ \E a \in Names, n \in TypedLens : TypedConstruct(a, n)
  \/ \E a \in Names : SetSerializer(a)
  \/ \E a \in Names : SetDeserializer(a)
  \/ \E a \in Names, i \in Indices, x \in Values : TypedWrite(a, i, x)
  \/ \E a \in Names, i \in Indices : TypedRead(a, i)
  \/ \E a \in Names : TypedCommit(a)
  \/ \E a \in Names : InvalidateHost(a)

SpecTyped == Init /\ [][NextTyped]_vars

(***************************************************************************)
(* The program allocating, releasing and resetting device memory.          *)
(***************************************************************************)
\* Block sizes asked of allocate_uniform here
PoolSizes == {8, 24, MramLimit - 8}

\* PIMManager::instance().reset_memory(); the Blocks the program holds stay in
\* its hands and may still be deallocated
ResetMemory ==
  /\ Tick
  /\ mgr' = reset_memory(mgr)
  /\ call' = [op |-> "reset_memory"]
  /\ ops' = <<>>
  /\ UNCHANGED <<heapVars, thrVars, blocks, shutdown_mode, mram, wram, vec>>

NextPool ==
  \/ \E nr \in UnitCounts : InitWith(nr, "main.dpu")
  \/ \E bytes \in PoolSizes : AllocateUniform(bytes)
  \/ \E b \in blocks : Deallocate(b)
  \/ ResetMemory

SpecPool == Init /\ [][NextPool]_vars

(***************************************************************************)
(* The stand-alone allocator.                                              *)
(***************************************************************************)
\* request sizes tried on the stand-alone allocator
ReqSizes == {0, 8, 12, 16}

\* heap.alloc(bytes)
HeapAlloc(bytes) ==
  /\ Len(hist) < MaxOps
  /\ LET r == alloc(heap, bytes)
     IN  /\ heap' = r.st
         /\ handed' = IF r.err = "none" THEN handed \cup {<<r.off, bytes>>} ELSE handed
         /\ live' = IF r.err = "none" THEN live \cup {<<r.off, bytes>>} ELSE live
         /\ hist' = Append(hist, [op |-> "alloc", bytes |-> bytes, off |-> r.off,
                                  err |-> r.err, pre |-> heap, wasLive |-> FALSE])
  /\ UNCHANGED pimVars

\* heap.free(off, bytes) of a pair alloc returned earlier (possibly freed already)
HeapFree(off, bytes) ==
  /\ Len(hist) < MaxOps
  /\ heap' = free(heap, off, bytes)
  /\ hist' = Append(hist, [op |-> "free", bytes |-> bytes, off |-> off,
                           err |-> "none", pre |-> heap, wasLive |-> <<off, bytes>> \in live])
  /\ live' = live \ {<<off, bytes>>}
  /\ UNCHANGED <<handed, pimVars>>

\* heap.reset()
HeapReset ==
  /\ Len(hist) < MaxOps
  /\ heap' = reset(heap)
  /\ handed' = {}
  /\ live' = {}
  /\ hist' = Append(hist, [op |-> "reset", bytes |-> 0, off |-> 0,
                           err |-> "none", pre |-> heap, wasLive |-> FALSE])
  /\ UNCHANGED pimVars

NextAlloc ==
  \/ \E b \in ReqSizes : HeapAlloc(b)
  \/ \E p \in handed : HeapFree(p[1], p[2])
  \/ HeapReset

SpecAlloc == Init /\ [][NextAlloc]_vars

(***************************************************************************)
(* Claims about the allocator.                                             *)
(***************************************************************************)
\* the allocator as it was after the i-th call of hist
HeapAfter(i) == IF i < Len(hist) THEN hist[i + 1].pre ELSE heap

\* the smallest multiple of 8 that is at least n
RoundUp8(n) == ((n + 7) \div 8) * 8

\* the calls of the limit-64 scenario of the specification, and the offsets it states
ScenarioCalls ==
  /\ Len(hist) >= 5
  /\ hist[1].op = "alloc" /\ hist[1].bytes = 16
  /\ hist[2].op = "alloc" /\ hist[2].bytes = 16
  /\ hist[3].op = "free" /\ hist[3].off = 0 /\ hist[3].bytes = 16
  /\ hist[4].op = "alloc" /\ hist[4].bytes = 8
  /\ hist[5].op = "alloc" /\ hist[5].bytes = 16
ScenarioOffsets ==
  /\ hist[1].off = 0 /\ hist[2].off = 16 /\ hist[4].off = 0 /\ hist[5].off = 32

\* C9: every alloc call rounds the request up to a multiple of 8; when some
\* free block is at least that large it returns the lowest-offset such block,
\* takes it out of the free map and leaves the remainder, if any, as a free
\* block at offset + size, cur unchanged; only when no free block fits and the
\* limit allows it does it return cur and advance cur by the rounded size. With
\* limit 64: alloc(16)=0, alloc(16)=16, free(0,16), alloc(8)=0, alloc(16)=32.
\* (Request sizes are below 2^AddrBits - 8, where align_up does not wrap.)
C9_AllocFirstFit ==
  /\ \A i \in 1..Len(hist) :
       LET e    == hist[i]
           pre  == e.pre
           post == HeapAfter(i)
           need == RoundUp8(e.bytes)
           cand == {k \in DOMAIN pre.free : pre.free[k] >= need}
       IN  e.op = "alloc" =>
             IF cand # {}
             THEN /\ e.err = "none"
                  /\ e.off \in cand
                  /\ \A k \in cand : e.off <= k
                  /\ post.cur = pre.cur
                  /\ DOMAIN post.free =
                       ((DOMAIN pre.free) \ {e.off}) \cup
                       (IF pre.free[e.off] > need THEN {e.off + need} ELSE {})
                  /\ \A k \in DOMAIN post.free :
                       post.free[k] = IF k = e.off + need /\ pre.free[e.off] > need
                                      THEN pre.free[e.off] - need
                                      ELSE pre.free[k]
             ELSE e.err = "none" =>
                  /\ e.off = pre.cur
                  /\ post.cur = pre.cur + need
                  /\ post.free = pre.free
  /\ (heap.limit = 64 /\ ScenarioCalls) => ScenarioOffsets

\* C9 witness: an alloc that found two fitting free blocks, took the lower one
\* and split it, after an alloc that had to bump cur
C9_Witness ==
  \E i \in 1..Len(hist) : \E j \in 1..Len(hist) :
    /\ hist[i].op = "alloc" /\ hist[i].err = "none"
    /\ Cardinality({k \in DOMAIN hist[i].pre.free :
                      hist[i].pre.free[k] >= RoundUp8(hist[i].bytes)}) >= 2
    /\ hist[i].pre.free[hist[i].off] > RoundUp8(hist[i].bytes)
    /\ hist[i].bytes > 0
    /\ hist[j].op = "alloc" /\ hist[j].err = "none"
    /\ hist[j].pre.free = EmptyMap /\ hist[j].off = hist[j].pre.cur /\ hist[j].off > 0

\* no block of the free map ends exactly where another one begins
NoAdjacentFree(f) ==
  \A k1 \in DOMAIN f : \A k2 \in DOMAIN f : k1 # k2 => k1 + f[k1] # k2

\* C10: after any free the free map holds no two adjacent blocks, and once two
\* adjacent allocated blocks have both been freed, in either order, one free
\* block spans both.
C10_Coalesced ==
  \A i \in 1..Len(hist) :
    hist[i].op = "free" =>
      /\ NoAdjacentFree(HeapAfter(i).free)
      /\ \A j \in 1..(i - 1) :
           LET a == hist[j]
               b == hist[i]
               lo == IF a.off < b.off THEN a ELSE b
               hi == IF a.off < b.off THEN b ELSE a
           IN  ( /\ j = i - 1 /\ a.op = "free" /\ a.wasLive /\ b.wasLive
                 /\ lo.bytes > 0 /\ hi.bytes > 0
                 /\ lo.off + RoundUp8(lo.bytes) = hi.off )
               => \E k \in DOMAIN HeapAfter(i).free :
                    /\ k <= lo.off
                    /\ k + HeapAfter(i).free[k] >= hi.off + RoundUp8(hi.bytes)
                    /\ \A k2 \in DOMAIN HeapAfter(i).free :
                         k2 # k => ( k2 + HeapAfter(i).free[k2] <= lo.off
                                     \/ k2 >= hi.off + RoundUp8(hi.bytes) )

(***************************************************************************)
(* Claims about the ownership of Blocks.                                   *)
(***************************************************************************)
\* a is a live Array that is not empty
NonEmpty(a) == vec[a].live /\ vec[a].total > 0

\* the byte ranges [off, off + bytes) of the Blocks of a and b do not meet
Disjoint(a, b) ==
  \/ vec[a].off + vec[a].bytes <= vec[b].off
  \/ vec[b].off + vec[b].bytes <= vec[a].off

\* C7: in every reachable state the Blocks of any two live non-empty Arrays
\* are disjoint address ranges
C7_BlocksDisjoint ==
  \A a \in Names, b \in Names :
    (a # b /\ NonEmpty(a) /\ NonEmpty(b)) => Disjoint(a, b)

\* C8: every Block is passed to deallocate exactly once over the lifetime of
\* its owning Array: never twice (neither while held nor by the time it is
\* given up), and outside shutdown never zero times
C8_ReleasedOnce ==
  \A a \in Names :
    /\ vec[a].rel <= 1
    /\ \A g \in vec[a].gone : g[1] <= 1 /\ (~g[2] => g[1] = 1)

(***************************************************************************)
(* Claims about element access, commit, invalidate_host and dispatch.      *)
(***************************************************************************)
\* element i of an array whose chunks are shards (Vector::locate's mapping)
Elem(shards, i) ==
  shards[(i \div Len(shards[1])) + 1][(i % Len(shards[1])) + 1]

\* the calls of ops that are not transfers
NotScatter(e) == e[1] # "scatter"

\* the last operation was an EltwiseAddMod that reached run_kernel
Dispatched == call.op = "EltwiseAddMod" /\ call.err = "none"

\* C1: for arrays A and B of equal length N with values in [0, m) and a
\* destination C of length N, EltwiseAddMod(C, A, B, m) followed by host reads
\* gives C[i] = (A[i] + B[i]) mod m for every i < N
C1_AddModResult ==
  ( /\ Dispatched
    /\ vec[call.dst].total > 0
    /\ Len(call.A) > 0 /\ Len(call.B) > 0
    /\ vec[call.dst].total = vec[call.op1].total
    /\ vec[call.dst].total = vec[call.op2].total
    /\ \A i \in 0..(vec[call.dst].total - 1) :
         Elem(call.A, i) < call.m /\ Elem(call.B, i) < call.m )
  => \A i \in 0..(vec[call.dst].total - 1) :
       subscript_const(mram, vec[call.dst], i).val
         = (Elem(call.A, i) + Elem(call.B, i)) % call.m

\* C2: a run performs, in this order and with no other device operation in
\* between, the commit of every input, one push of the record, one exec and
\* then invalidate_host of every output; the only transfers are those of the
\* commits, each to the Block of the array committed
C2_RunOrder ==
  Dispatched =>
    /\ SelectSeq(ops, NotScatter)
         = << <<"commit", call.op1>>, <<"commit", call.op2>>, <<"push_args">>,
              <<"exec">>, <<"invalidate_host", call.dst>> >>
    /\ \A i \in DOMAIN ops :
         ops[i][1] = "scatter" =>
           /\ i > 1
           /\ ops[i - 1][1] = "commit"
           /\ ops[i][2] = vec[ops[i - 1][2]].off

\* a dispatch of three different arrays whose two inputs both had to be transferred
C2_Witness ==
  /\ Dispatched
  /\ call.op1 # call.op2 /\ call.dst # call.op1 /\ call.dst # call.op2
  /\ Len(ops) = 7
  /\ ops[2][1] = "scatter" /\ ops[4][1] = "scatter"
  /\ vec[call.dst].state = "PIM_FRESH"

\* C3: in every reachable state a Clean array's host chunks equal the device
\* contents of its Block, a HostDirty array's host chunks hold the latest
\* values and a DeviceFresh array's Block holds the latest values
C3_Coherence ==
  \A a \in Names :
    vec[a].live =>
      /\ vec[a].state = "CLEAN" =>
           vec[a].shards = DeviceView(mram, vec[a].off, vec[a].shards)
      /\ vec[a].state = "HOST_DIRTY" => vec[a].shards = vec[a].latest
      /\ vec[a].state = "PIM_FRESH" =>
           DeviceView(mram, vec[a].off, vec[a].shards) = vec[a].latest

\* the last operation was an element access that returned
Accessed == call.op \in {"operator[]", "operator[] const"} /\ call.err = "none"

CommitStep == nsteps' # nsteps /\ call'.op = "commit"

\* C5: commit transfers if and only if the state is HostDirty and then sets
\* the state to Clean with the Block holding the host chunks; otherwise it
\* changes nothing, so a second commit in a row transfers nothing
C5_CommitOnce ==
  [][ CommitStep =>
        LET a == call'.a IN
        /\ (ops' # <<>>) <=> (vec[a].state = "HOST_DIRTY")
        /\ vec[a].state = "HOST_DIRTY" =>
             /\ ops' = << <<"scatter", vec[a].off>> >>
             /\ vec' = [vec EXCEPT ![a].state = "CLEAN"]
             /\ DeviceView(mram', vec[a].off, vec[a].shards) = vec[a].shards
        /\ vec[a].state # "HOST_DIRTY" => UNCHANGED <<vec, mram, mgr, wram>>
        /\ commit(mram', vec'[a]).ops = <<>>
    ]_vars

\* a commit of an array that an earlier commit had already made Clean
C5_Witness ==
  /\ call.op = "commit"
  /\ call.pre = "CLEAN"
  /\ ops = <<>>
  /\ vec[call.a].state = "CLEAN"
  /\ \E i \in Indices : i < vec[call.a].total /\ Elem(vec[call.a].shards, i) # 0

\* a step that is a call of a.invalidate_host()
InvalidateStep == nsteps' # nsteps /\ call'.op = "invalidate_host"

\* C6: invalidate_host sets the state to DeviceFresh from any prior state and
\* transfers nothing: host buffers, device memory, the Block and the length
\* are unchanged, and the next host access is the one that gathers
C6_InvalidateFrame ==
  [][ InvalidateStep =>
        LET a == call'.a IN
        /\ vec' = [vec EXCEPT ![a].state = "PIM_FRESH"]
        /\ ops' = <<>>
        /\ UNCHANGED <<mram, mgr, wram>>
        /\ vec[a].total > 0 =>
             subscript_const(mram', vec'[a], 0).ops
               = << <<"gather", vec[a].off, vec[a].bytes>> >>
    ]_vars

\* invalidate_host of a HostDirty array whose host chunks differ from its Block
C6_Witness ==
  /\ call.op = "invalidate_host"
  /\ call.pre = "HOST_DIRTY"
  /\ vec[call.a].state = "PIM_FRESH"
  /\ vec[call.a].total > 0
  /\ vec[call.a].shards # DeviceView(mram, vec[call.a].off, vec[call.a].shards)

\* the byte ranges of two blocks given by offset and requested size meet
Overlap(o1, b1, o2, b2) == o1 < o2 + RoundUp8(b2) /\ o2 < o1 + RoundUp8(b1)

\* the i-th call frees a block that an earlier call freed while it was
\* allocated, and no alloc in between has handed any of its bytes out again
FreedBefore(i) ==
  \E j \in 1..(i - 1) :
    /\ hist[j].op = "free" /\ hist[j].wasLive
    /\ hist[j].off = hist[i].off /\ hist[j].bytes = hist[i].bytes
    /\ \A k \in (j + 1)..(i - 1) :
         /\ hist[k].op # "reset"
         /\ ~( /\ hist[k].op = "alloc" /\ hist[k].err = "none"
               /\ \/ hist[k].off = hist[i].off
                  \/ Overlap(hist[k].off, hist[k].bytes, hist[i].off, hist[i].bytes) )

\* C11: in every allocator state reached by alloc and free calls, free(offset,
\* bytes) called again for a block (of non-zero size) already freed and not
\* re-allocated is ignored: the free map and cur after the call equal those
\* before it
C11_DoubleFreeIgnored ==
  \A i \in 1..Len(hist) :
    (hist[i].op = "free" /\ hist[i].bytes > 0 /\ FreedBefore(i)) =>
       /\ HeapAfter(i).free = hist[i].pre.free
       /\ HeapAfter(i).cur = hist[i].pre.cur

(***************************************************************************)
(* Claims about the manager.                                               *)
(***************************************************************************)
\* no block of the free map of al is as large as need
NoFit(al, need) == \A k \in DOMAIN al.free : al.free[k] < need

\* the step is a call of allocate_uniform on the initialised manager
AllocateStep == nsteps' # nsteps /\ call'.op = "allocate_uniform" /\ mgr.initialised

\* C12: alloc(bytes), as allocate_uniform calls it on the first unit, fails
\* with bad_alloc exactly when no free block fits and cur plus the size rounded
\* up to 8 exceeds the limit; on that failure cur and the free map are
\* unchanged, and allocate_uniform leaves the allocator of every unit unchanged
C12_AllocFailure ==
  [][AllocateStep =>
       LET need == RoundUp8(call'.bytes)
           al   == mgr.alloc_[1]
       IN  /\ (call'.err = "bad_alloc") <=>
                (NoFit(al, need) /\ al.cur + need > al.limit)
           /\ call'.err = "bad_alloc" =>
                /\ mgr'.alloc_[1].cur = al.cur /\ mgr'.alloc_[1].free = al.free
                /\ mgr'.alloc_ = mgr.alloc_
           /\ call'.err \in {"none", "bad_alloc"}]_vars

\* C12 witness: allocate_uniform has failed with bad_alloc on a manager of
\* several units whose allocators have a free block (too small) and cur short
\* of the limit
C12_Witness ==
  /\ call.op = "allocate_uniform" /\ call.err = "bad_alloc"
  /\ mgr.dpu_n >= 2
  /\ \A u \in 1..mgr.dpu_n :
       /\ mgr.alloc_[u].free # EmptyMap
       /\ mgr.alloc_[u].cur < mgr.alloc_[u].limit
       /\ mgr.alloc_[u].cur > 0

(***************************************************************************)
(* ntt.hpp, number-theory.h and the DPU program's kernel table: the        *)
(* distributed NTT.                                                        *)
(***************************************************************************)
\* pimop_t (common.h): NTT_STAGE is the eleventh opcode, counted from 0
NTT_STAGE == 10
\* NR_KERNELS (common.h): the size of the DPU program's kernel table
NR_KERNELS == 11

\* int (*kernels[NR_KERNELS])(void) = {...}: the initialisers given; the slots
\* after them are null pointers
kernels_table ==
  <<"mod_add", "mod_add_scalar", "cmp_add", "cmp_sub_mod", "fma_mod", "mod_sub",
    "mod_sub_scalar", "mod_mul", "reduce_mod", "ntt_stage">>

\* kernels[op] as main (dpu) reads it
kernel_slot(op) ==
  IF op < Len(kernels_table) THEN kernels_table[op + 1]
  ELSE IF op < NR_KERNELS THEN "NULL"
  ELSE "out of bounds"

\* ilog2: 31 - clz(n), n >= 1
RECURSIVE ilog2(_)
ilog2(n) == IF n <= 1 THEN 0 ELSE 1 + ilog2(n \div 2)

\* x ^ y on unsigned integers
RECURSIVE BitXor(_, _)
BitXor(x, y) ==
  IF x = 0 /\ y = 0 THEN 0
  ELSE (((x % 2) + (y % 2)) % 2) + 2 * BitXor(x \div 2, y \div 2)

\* mul_mod_u64 (number-theory.h): shift and add, in dpu_word_t arithmetic
RECURSIVE mul_mod_loop(_, _, _, _)
mul_mod_loop(a, b, m, result) ==
  IF a = 0 THEN result
  ELSE LET r1 == IF a % 2 = 1
                 THEN IF result >= (m - b + WordMod) % WordMod
                      THEN (result - (m - b) + 2 * WordMod) % WordMod
                      ELSE (result + b) % WordMod
                 ELSE result
           b1 == IF b >= (m - b + WordMod) % WordMod
                 THEN (b - (m - b) + 2 * WordMod) % WordMod
                 ELSE (b + b) % WordMod
       IN  mul_mod_loop(a \div 2, b1, m, r1)
mul_mod_u64(a, b, m) == mul_mod_loop(a, b, m, 0)

\* pow_mod_u64 (host build: 128-bit products)
RECURSIVE pow_mod_loop(_, _, _, _)
pow_mod_loop(acc, b, exp, mod) ==
  IF exp = 0 THEN acc
  ELSE pow_mod_loop(IF exp % 2 = 1 THEN (acc * b) % mod ELSE acc,
                    (b * b) % mod, exp \div 2, mod)
pow_mod_u64(base, exp, mod) == pow_mod_loop(1, base % mod, exp, mod)

\* inverse_mod_u64: extended Euclid in dpu_word_t arithmetic (u and v wrap)
RECURSIVE inverse_mod_loop(_, _, _, _, _)
inverse_mod_loop(a, b, u, v, m) ==
  IF b = 0 THEN (IF a # 1 THEN 0 ELSE ((u + m) % WordMod) % m)
  ELSE LET t == a \div b
       IN  inverse_mod_loop(b, a - t * b, v,
                            (((u - t * v) % WordMod) + WordMod) % WordMod, m)
inverse_mod_u64(a, m) == inverse_mod_loop(a, m, 1, 0, m)

\* bitrev(x, logn)
RECURSIVE bitrev(_, _)
bitrev(x, logn) ==
  IF logn = 0 THEN 0
  ELSE (x % 2) * (2 ^ (logn - 1)) + bitrev(x \div 2, logn - 1)

\* find_root(N, p): the first g^((p-1)/N) of order N with g in 2..p-1, or 0
RECURSIVE find_root_from(_, _, _)
find_root_from(g, N, p) ==
  IF g >= p THEN 0
  ELSE LET w == pow_mod_u64(g, (p - 1) \div N, p)
       IN  IF pow_mod_u64(w, N, p) = 1 /\ pow_mod_u64(w, N \div 2, p) # 1
           THEN w
           ELSE find_root_from(g + 1, N, p)
find_root(N, p) == find_root_from(2, N, p)

\* the elements of a Vector as the host sees them: element i is data[i + 1]
Swap(data, i, j) == [data EXCEPT ![i + 1] = data[j + 1], ![j + 1] = data[i + 1]]

\* replicated_twiddles(N, mod) with D units: the tables W and W_inv, N * D
\* elements each, built zero-filled and written through operator[]
RECURSIVE twiddles_from(_, _, _, _, _, _)
twiddles_from(k, N, D, mod, omega, T) ==
  IF k >= N THEN T
  ELSE LET a == mul_mod_u64(T.W[k], omega, mod)
           b == mul_mod_u64(T.W_inv[k], pow_mod_u64(omega, N - 1, mod), mod)
       IN  twiddles_from(k + 1, N, D, mod, omega,
                         [W     |-> [T.W EXCEPT ![k * D + 1] = a],
                          W_inv |-> [T.W_inv EXCEPT ![k * D + 1] = b]])
replicated_twiddles(N, mod, D) ==
  twiddles_from(1, N, D, mod, find_root(N, mod),
                [W |-> [i \in 1..(N * D) |-> 0], W_inv |-> [i \in 1..(N * D) |-> 0]])

\* bit_reverse(vec)
RECURSIVE bit_reverse_from(_, _)
bit_reverse_from(data, i) ==
  IF i >= Len(data) THEN data
  ELSE LET j == bitrev(i, ilog2(Len(data)))
       IN  bit_reverse_from(IF j > i THEN Swap(data, i, j) ELSE data, i + 1)
bit_reverse(data) == bit_reverse_from(data, 0)

\* launch_stage: run_kernel with kernel NTT_STAGE. Every DPU runs main, which
\* calls through kernels[NTT_STAGE]; that slot holds no kernel, so what the
\* call does is not defined: the launch ends in a fault that exec reports, or
\* the call comes back with MRAM as it was (fault tells which)
launch_stage(data, fault) ==
  IF fault THEN [vec |-> data, err |-> "DpuError"] ELSE [vec |-> data, err |-> "none"]

\* the exchange loop of distributed_ntt before a cross-unit stage
RECURSIVE swap_span(_, _, _, _, _)
swap_span(data, startA, startB, span, i) ==
  IF i >= span THEN data
  ELSE swap_span(IF startA + i < Len(data) /\ startB + i < Len(data)
                 THEN Swap(data, startA + i, startB + i) ELSE data,
                 startA, startB, span, i + 1)
RECURSIVE swap_units(_, _, _, _, _)
swap_units(data, d, D, L, span) ==
  IF d >= D THEN data
  ELSE LET p == BitXor(d, span \div L)
       IN  swap_units(IF d > p THEN data
                      ELSE swap_span(data, d * L + span, p * L + span, span, 0),
                      d + 1, D, L, span)

\* the two stage loops of distributed_ntt from stage s on; faultAt is the
\* launch (counted from 1) that ends in a fault, 0 for none
RECURSIVE stages_from(_, _, _, _, _)
stages_from(data, s, D, span, faultAt) ==
  LET N    == Len(data)
      L    == N \div D
      logN == ilog2(N)
      logL == ilog2(L)
  IN  IF s >= logN THEN [vec |-> data, err |-> "none"]
      ELSE LET v1 == IF s < logL THEN data ELSE swap_units(data, 0, D, L, span)
               r  == launch_stage(v1, faultAt = s + 1)
           IN  IF r.err # "none" THEN r
               ELSE stages_from(r.vec, s + 1, D, 2 * span, faultAt)

\* the argument record launch_stage builds for a stage of span span (and
\* whether the exchange loop of distributed_ntt ran just before the launch)
stage_args(N, Wsize, mod, span, inverse, last, exchanged) ==
  [A_size |-> N % AddrMod, B_size |-> Wsize % AddrMod, kernel |-> NTT_STAGE,
   mod |-> mod, scalar |-> 0, mod_factor |-> span, in_factor |-> N \div (2 * span),
   out_factor |-> (IF inverse THEN 1 ELSE 0) + (IF last THEN 2 ELSE 0),
   exchanged |-> exchanged]

\* the records of the launches of distributed_ntt from stage s on, in the
\* order issued; the launch numbered faultAt is the last one when it faults
RECURSIVE stage_records(_, _, _, _, _, _, _)
stage_records(N, D, mod, dir, s, span, faultAt) ==
  LET L    == N \div D
      logN == ilog2(N)
      logL == ilog2(L)
  IN  IF s >= logN THEN <<>>
      ELSE << stage_args(N, N * D, mod, span, dir = "INVERSE", s + 1 = logN, s >= logL) >>
           \o (IF faultAt = s + 1 THEN <<>>
               ELSE stage_records(N, D, mod, dir, s + 1, 2 * span, faultAt))

\* distributed_ntt(vec, W, mod, dir) with D units
distributed_ntt(data, mod, dir, D, faultAt) ==
  LET N == Len(data)
  IN  IF N % D # 0 THEN [vec |-> data, err |-> "runtime_error"]
      ELSE LET v1 == IF dir = "FORWARD" THEN bit_reverse(data) ELSE data
               r  == stages_from(v1, 0, D, 1, faultAt)
           IN  IF r.err # "none" THEN r
               ELSE IF dir = "INVERSE"
               THEN LET v2   == bit_reverse(r.vec)
                        invN == inverse_mod_u64(N, mod)
                    IN  [vec |-> [i \in 1..N |-> mul_mod_u64(v2[i], invN, mod)],
                         err |-> "none"]
               ELSE r

(***************************************************************************)
(* The program of the NTT round trip (ntt_roundtrip's main).               *)
(***************************************************************************)
\* transform lengths and moduli tried
NttLens == {2, 4}
NttModuli == {3, 5}

\* the vectors of length N over [0, q)
Vectors(N, q) == [1..N -> 0..(q - 1)]

\* the program has initialised D units, built the tables and filled vec with orig
InitNtt ==
  /\ InitHeap
  /\ shutdown_mode = FALSE
  /\ mram = [u \in 1..HwDpus |-> [w \in 0..(MramWords - 1) |-> 0]]
  /\ wram = NoArgs
  /\ vec = [a \in Names |-> NoVector({})]
  /\ nsteps = 0
  /\ ops = <<>>
  /\ blocks = {}
  /\ threads = [t \in Threads |-> IdleThread]
  /\ pim_mutex_ = NoThread
  /\ \E N \in NttLens, q \in NttModuli, D \in 1..HwDpus :
       /\ find_root(N, q) # 0
       /\ N % D = 0
       /\ mgr = init(PIMManager0, D, "main.dpu")
       /\ \E v \in Vectors(N, q) :
            call = [op |-> "input", q |-> q, D |-> D, orig |-> v, vec |-> v,
                    err |-> "none", launches |-> 0, stages |-> <<>>]

\* distributed_ntt(vec, W.first, mod, FORWARD)
NttForward(faultAt) ==
  /\ Tick
  /\ call.op = "input"
  /\ kernel_slot(NTT_STAGE) = "NULL"
  /\ faultAt <= ilog2(Len(call.vec))
  /\ \E r \in {distributed_ntt(call.vec, call.q, "FORWARD", call.D, faultAt)} :
       call' = [call EXCEPT !.op = "forward", !.vec = r.vec, !.err = r.err,
                            !.launches = IF faultAt = 0 THEN ilog2(Len(call.vec))
                                         ELSE faultAt,
                            !.stages = stage_records(Len(call.vec), call.D, call.q,
                                                     "FORWARD", 0, 1, faultAt)]
  /\ UNCHANGED <<heapVars, thrVars, blocks, shutdown_mode, mgr, mram, wram, vec, ops>>

\* distributed_ntt(vec, W.second, mod, INVERSE), when the forward call returned
NttInverse(faultAt) ==
  /\ Tick
  /\ call.op = "forward" /\ call.err = "none"
  /\ kernel_slot(NTT_STAGE) = "NULL"
  /\ faultAt <= ilog2(Len(call.vec))
  /\ \E r \in {distributed_ntt(call.vec, call.q, "INVERSE", call.D, faultAt)} :
       call' = [call EXCEPT !.op = "inverse", !.vec = r.vec, !.err = r.err,
                            !.launches = IF faultAt = 0 THEN ilog2(Len(call.vec))
                                         ELSE faultAt,
                            !.stages = stage_records(Len(call.vec), call.D, call.q,
                                                     "INVERSE", 0, 1, faultAt)]
  /\ UNCHANGED <<heapVars, thrVars, blocks, shutdown_mode, mgr, mram, wram, vec, ops>>

\* which launch, if any, ends in a fault
FaultAts == 0..2

NextNtt ==
  \/ \E f \in FaultAts : NttForward(f)
  \/ \E f \in FaultAts : NttInverse(f)

SpecNtt == InitNtt /\ [][NextNtt]_vars

\* C13: for every power of two N, modulus q with a primitive N-th root of
\* unity, unit count D dividing N and vector v of length N over [0, q),
\* distributed_ntt forward and then inverse returns v unchanged
C13_NttRoundTrip ==
  /\ call.op \in {"forward", "inverse"} => call.err = "none"
  /\ call.op = "inverse" => call.vec = call.orig

(***************************************************************************)
(* Claims about copying, moving and resizing Arrays.                       *)
(***************************************************************************)
\* what reading element i of v on the host gives, -1 when locate throws
ReadAt(v, i) == IF locate(v, i).err = "none" THEN Elem(v.shards, i) ELSE 0 - 1

\* the step is a copy-assignment or copy-construction that returned
CopyStep ==
  /\ nsteps' # nsteps
  /\ call'.op \in {"operator=(const&)", "Vector(const&)"}
  /\ call'.err = "none"

\* C14: after copy-assigning or copy-constructing B from A, B has A's length
\* and B[i] = A[i] for every i, and B's Block is disjoint from A's Block (so
\* that, the host buffers being B's own, nothing later written to or computed
\* into one of them shows in the other)
C14_CopyIndependent ==
  [][CopyStep =>
       LET A == vec'[call'.src]
           B == vec'[call'.a]
       IN  /\ B.total = A.total
           /\ \A i \in 0..(A.total - 1) : ReadAt(B, i) = ReadAt(A, i) /\ ReadAt(A, i) >= 0
           /\ A.total > 0 =>
                (A.off + A.bytes <= B.off \/ B.off + B.bytes <= A.off)]_vars

\* the step is a move-assignment
MoveStep == nsteps' # nsteps /\ call'.op = "operator=(&&)"

\* C15: after moving Array A into B, A is in the empty state (no chunks, zero
\* length, empty Block), so that destroying or clearing A releases nothing; B
\* holds A's former Block, host buffers, length and coherence state; and the
\* Block B owned before the move has been released once
C15_MoveTransfers ==
  [][MoveStep =>
       LET A  == vec[call'.src]
           B0 == vec[call'.a]
           A1 == vec'[call'.src]
           B1 == vec'[call'.a]
       IN  /\ A1.live /\ A1.total = 0 /\ A1.shards = <<>> /\ A1.off = 0 /\ A1.bytes = 0
           /\ deallocate_if_owner(mgr', A1).m = mgr'
           /\ B1.off = A.off /\ B1.bytes = A.bytes /\ B1.shards = A.shards
           /\ B1.total = A.total /\ B1.state = A.state
           /\ HoldsBlock(B0) => B1.gone = B0.gone \cup {<<1, shutdown_mode>>}]_vars

\* the step is a resize that returned; the fill value it was given
ResizeStep == nsteps' # nsteps /\ call'.op = "resize" /\ call'.err = "none"
FillOf(c) == IF "fill" \in DOMAIN c THEN c.fill ELSE 0

\* C16: resize(n, fill) with n different from the current size releases the
\* old Block (if the array holds one) through the allocator, allocates a new
\* Block (for n > 0: room for n elements over the units), sets the length to
\* n, makes every element i < n read as fill and sets the state to HostDirty;
\* resize with n equal to the current size changes nothing: Block, contents
\* and state are kept, and so are the allocators
C16_Resize ==
  [][ResizeStep =>
       LET B0 == vec[call'.a]
           B1 == vec'[call'.a]
           n  == call'.n
       IN  IF n # B0.total
           THEN /\ (B0.total > 0 /\ HoldsBlock(B0)) =>
                     B1.gone = B0.gone \cup {<<Min({B0.rel + 1, RelCap}), shutdown_mode>>}
                /\ n > 0 =>
                     /\ B1.bytes > 0
                     /\ Len(B1.shards) * (B1.bytes \div WordBytes) >= n
                     /\ B1.off + B1.bytes <= MramLimit
                     /\ \A u \in 1..Len(mgr'.alloc_) :
                          B1.off + B1.bytes <= mgr'.alloc_[u].cur
                /\ n = 0 => B1.bytes = 0
                /\ B1.total = n
                /\ \A i \in 0..(n - 1) : ReadAt(B1, i) = FillOf(call')
                /\ B1.state = "HOST_DIRTY"
           ELSE /\ vec' = vec
                /\ mgr' = mgr]_vars

\* C16 witness: a resize has replaced the Block of a Clean array of non-zero
\* contents by a larger one filled with zeros
C16_Witness ==
  /\ call.op = "resize" /\ call.err = "none" /\ FillOf(call) = 0
  /\ vec[call.a].total = 3 * ChunkAlign
  /\ <<1, FALSE>> \in vec[call.a].gone
  /\ vec[call.a].state = "HOST_DIRTY"
  /\ vec[call.a].off > 0
  /\ \E u \in 1..HwDpus : \E w \in DOMAIN mram[u] : mram[u][w] = 1

(***************************************************************************)
(* Claims about indexing.                                                  *)
(***************************************************************************)
\* the step is operator[] or at with an index past the end of the array
PastEndStep ==
  /\ nsteps' # nsteps
  /\ call'.op \in {"operator[]", "operator[] const", "at"}
  /\ call'.i >= vec[call'.a].total

\* C17: an out-of-range index (i >= size) passed to operator[] or at raises a
\* bounds error and leaves the array unchanged: no gather is performed, and
\* the coherence state and the host buffers are the same as before the call,
\* whatever the coherence state was
C17_PastEndUnchanged ==
  [][PastEndStep =>
       /\ call'.err = "out_of_range"
       /\ \A k \in 1..Len(ops') : ops'[k][1] # "gather"
       /\ vec'[call'.a].state = vec[call'.a].state
       /\ vec'[call'.a].shards = vec[call'.a].shards
       /\ vec' = vec]_vars

(***************************************************************************)
(* Claims about initialising the manager and loading the program.          *)
(***************************************************************************)
\* the step is a call of PIMManager::init
InitStep == nsteps' # nsteps /\ call'.op = "init"

\* C18: init is idempotent: once the manager is initialised, a further init
\* call, with any unit count and program, leaves the unit count, the per-unit
\* allocators (outstanding allocations included) and the program identity
\* as they were
C18_InitIdempotent ==
  [][(InitStep /\ mgr.initialised) =>
       /\ mgr'.dpu_n = mgr.dpu_n
       /\ mgr'.alloc_ = mgr.alloc_
       /\ mgr'.elf_path = mgr.elf_path
       /\ mgr'.loaded = mgr.loaded
       /\ mgr'.initialised]_vars

\* a second init, asking for another unit count and another program, has
\* returned while a Block is outstanding
C18_Witness ==
  /\ call.op = "init"
  /\ mgr.initialised
  /\ call.elf # mgr.elf_path
  /\ mgr.dpu_n = 1 /\ call.nr = HwDpus
  /\ blocks # {}
  /\ \E u \in 1..Len(mgr.alloc_) : mgr.alloc_[u].cur > 0

\* the step loads the program: sys_->load(elf_path_) in ensure_loaded
LoadStep == nsteps' # nsteps /\ mgr'.loaded /\ ~mgr.loaded

\* C19: init only records the program and does not load it; the program is
\* loaded exactly once, at the first exec, push_args, scatter or gather after
\* init, and never again in a later operation
C19_LazyLoad ==
  [][/\ InitStep => (~mgr'.loaded /\ (mgr'.initialised => mgr'.elf_path # ""))
     /\ LoadStep => call'.op \in {"exec", "push_args", "scatter", "gather"}
     /\ (nsteps' # nsteps /\ mgr.initialised /\ ~mgr.loaded
           /\ call'.op \in {"exec", "push_args", "scatter", "gather"}) => mgr'.loaded
     /\ mgr.loaded => mgr'.loaded]_vars

\* what does hold of loading: it happens in the first init, and the flag that
\* stops a second load is never cleared
LoadedAtInit ==
  [][/\ LoadStep => (call'.op = "init" /\ ~mgr.initialised)
     /\ (InitStep /\ mgr'.initialised) => mgr'.loaded
     /\ mgr.loaded => mgr'.loaded]_vars

(***************************************************************************)
(* Claims about scatter.                                                   *)
(***************************************************************************)
\* the step is a scatter with a number of buffers other than the DPU count
MismatchStep ==
  /\ nsteps' # nsteps
  /\ call'.op = "scatter"
  /\ call'.count # mgr.dpu_n

ReleaseStep == nsteps' # nsteps /\ call'.op \in {"deallocate", "~Vector"}

\* C21: once shutdown_mode is set it is never cleared, and from then on every
\* deallocate call and every Vector destructor leaves the allocators of all
\* DPUs as they were: no block goes back to a free map
C21_ShutdownNoRelease ==
  [][/\ shutdown_mode => shutdown_mode'
     /\ (shutdown_mode /\ ReleaseStep) => mgr'.alloc_ = mgr.alloc_]_vars

\* in shutdown mode the program has deallocated a Block it held, after the
\* destructor of an array that held a Block had run, and every allocator
\* still has an empty free map
C21_Witness ==
  /\ shutdown_mode
  /\ call.op = "deallocate" /\ call.bytes > 0
  /\ \E a \in Names : ~vec[a].live /\ <<0, TRUE>> \in vec[a].gone
  /\ \A u \in 1..Len(mgr.alloc_) : mgr.alloc_[u].free = EmptyMap /\ mgr.alloc_[u].cur > 0

(***************************************************************************)
(* Claims about host threads.                                              *)
(***************************************************************************)
\* the threads inside a critical section of the manager
InCritical == {t \in Threads : threads[t].pc \in {"locked", "unlock"}}

\* at most one thread is inside a manager function's critical section, and
\* that thread holds the mutex
MutualExclusion ==
  /\ Cardinality(InCritical) <= 1
  /\ \A t \in InCritical : pim_mutex_ = t

\* C22: with several host threads calling the manager, no two of its
\* operations are inside their critical section at the same time, and every
\* read or write of the manager's shared state (allocator table, DPU count,
\* loaded flag) is made by a thread that holds pim_mutex_
C22_Serialised ==
  [][/\ MutualExclusion'
     /\ \A t \in Threads :
          (threads'[t] # threads[t] /\ threads'[t].touch # {}) =>
             (pim_mutex_ = t /\ pim_mutex_' = t)]_vars

\* a thread reads dpu_n_ in build while the other one is inside init with the
\* mutex held, about to write it
DpuCountRace ==
  \E t \in Threads : \E o \in Threads \ {t} :
    /\ At_(t, "num_dpus() == 0")
    /\ Inside(o, "init")
    /\ ~mgr.initialised
NoDpuCountRace == ~DpuCountRace

\* C23: dispatches issued at the same time from different host threads on
\* disjoint arrays are thread-safe: the exec of every run_kernel call runs with
\* the arguments that same call pushed, whatever the interleaving
C23_ExecOwnArgs ==
  [][\A t \in Threads :
       (Inside(t, "exec") /\ threads'[t].pc = "unlock" /\ threads[t].job.op = "run_kernel") =>
          threads'[t].ran = threads[t].job.args]_vars

(***************************************************************************)
(* Claims about the operands of the element-wise helpers.                  *)
(***************************************************************************)
\* the step is EltwiseAddMod with an empty array among its operands
EmptyOperandStep ==
  /\ nsteps' # nsteps
  /\ call'.op = "EltwiseAddMod"
  /\ \E a \in {call'.dst, call'.op1, call'.op2} : vec[a].total = 0

\* C24: an element-wise helper reports an error, and performs no commit, no
\* push of arguments and no exec, whenever one of its operand arrays (first
\* input, second input or destination) is empty
C24_EmptyOperand ==
  [][EmptyOperandStep =>
       /\ call'.err # "none"
       /\ \A k \in 1..Len(ops') : ops'[k][1] \notin {"scatter", "push_args", "exec"}]_vars

\* what does hold: an empty first input is reported before anything is done
EmptyFirstInput ==
  [][(nsteps' # nsteps /\ call'.op = "EltwiseAddMod" /\ vec[call'.op1].total = 0) =>
       /\ call'.err = "runtime_error"
       /\ \A k \in 1..Len(ops') : ops'[k][1] \notin {"scatter", "push_args", "exec"}
       /\ mram' = mram /\ wram' = wram /\ vec' = vec]_vars

(***************************************************************************)
(* Claims about element types other than the device word.                  *)
(***************************************************************************)
\* the step is commit() on a HOST_DIRTY array that has no serializer
CommitNoSerializer ==
  /\ nsteps' # nsteps
  /\ call'.op = "commit"
  /\ vec[call'.a].state = "HOST_DIRTY"
  /\ vec[call'.a].serializer_ = "nullptr"

\* the step is an element access on a PIM_FRESH array that has no deserializer
AccessNoDeserializer ==
  /\ nsteps' # nsteps
  /\ call'.op \in {"operator[]", "operator[] const"}
  /\ vec[call'.a].state = "PIM_FRESH"
  /\ vec[call'.a].deserializer_ = "nullptr"

\* C25: for an element type other than the device word, commit() on a
\* HOST_DIRTY array without a serializer, and an access to a PIM_FRESH array
\* without a deserializer, raise an error, make no transfer and leave the
\* coherence state as it was
C25_MissingConverter ==
  [][/\ CommitNoSerializer =>
          /\ call'.err = "runtime_error"
          /\ ops' = <<>> /\ mram' = mram
          /\ vec'[call'.a].state = "HOST_DIRTY"
          /\ vec' = vec
     /\ AccessNoDeserializer =>
          /\ call'.err = "runtime_error"
          /\ ops' = <<>> /\ mram' = mram
          /\ vec'[call'.a].state = "PIM_FRESH"
          /\ vec' = vec]_vars

\* an access has failed for want of a deserializer on an array whose words
\* had been sent to the DPUs through its serializer
C25_Witness ==
  /\ call.op \in {"operator[]", "operator[] const"}
  /\ call.err = "runtime_error"
  /\ vec[call.a].state = "PIM_FRESH"
  /\ vec[call.a].deserializer_ = "nullptr"
  /\ vec[call.a].serializer_ # "nullptr"
  /\ \E u \in 1..HwDpus : \E w \in DOMAIN mram[u] : mram[u][w] # 0

(***************************************************************************)
(* distributed_ntt called with any length and any number of units.         *)
(***************************************************************************)
\* what "N % D" gives when D is 0, an integer division by zero: the process is
\* stopped by a trap, or the remainder comes out as some number, zero or not
DivByZero == {"trap", "zero", "nonzero"}

\* distributed_ntt from its first statement, D = num_dpus() being possibly 0
distributed_ntt_any(data, mod, dir, D, faultAt, rem) ==
  IF D # 0 THEN distributed_ntt(data, mod, dir, D, faultAt)
  ELSE CASE rem = "trap"    -> [vec |-> data, err |-> "SIGFPE"]
         [] rem = "nonzero" -> [vec |-> data, err |-> "runtime_error"]
         [] OTHER           -> [vec |-> data, err |-> "none"]

\* lengths of the arrays handed to distributed_ntt here
PreLens == {1, 2, 3}

\* the program has either left the manager alone and holds an empty Vector, or
\* has initialised D units and filled vec with N elements
InitNttPre ==
  /\ InitHeap
  /\ shutdown_mode = FALSE
  /\ mram = [u \in 1..HwDpus |-> [w \in 0..(MramWords - 1) |-> 0]]
  /\ wram = NoArgs
  /\ vec = [a \in Names |-> NoVector({})]
  /\ nsteps = 0
  /\ ops = <<>>
  /\ blocks = {}
  /\ threads = [t \in Threads |-> IdleThread]
  /\ pim_mutex_ = NoThread
  /\ \E q \in NttModuli :
       \/ /\ mgr = PIMManager0
          /\ call = [op |-> "input", q |-> q, D |-> 0, orig |-> <<>>, vec |-> <<>>,
                     err |-> "none", launches |-> 0]
       \/ \E N \in PreLens, D \in 1..HwDpus :
            /\ mgr = init(PIMManager0, D, "main.dpu")
            /\ \E v \in Vectors(N, q) :
                 call = [op |-> "input", q |-> q, D |-> D, orig |-> v, vec |-> v,
                         err |-> "none", launches |-> 0]

\* distributed_ntt(vec, W, mod, dir)
NttCall(dir, faultAt, rem) ==
  /\ Tick
  /\ call.op = "input"
  /\ kernel_slot(NTT_STAGE) = "NULL"
  /\ faultAt <= ilog2(Len(call.vec))
  /\ call.D # 0 => rem = "zero"
  /\ \E r \in {distributed_ntt_any(call.vec, call.q, dir, mgr.dpu_n, faultAt, rem)} :
       call' = [call EXCEPT !.op = dir, !.vec = r.vec, !.err = r.err,
                            !.launches = IF r.err = "runtime_error" \/ r.err = "SIGFPE" THEN 0
                                         ELSE IF faultAt = 0 THEN ilog2(Len(call.vec))
                                         ELSE faultAt]
  /\ UNCHANGED <<heapVars, thrVars, blocks, shutdown_mode, mgr, mram, wram, vec, ops>>

NextNttPre ==
  \E dir \in {"FORWARD", "INVERSE"}, f \in 0..1, rem \in DivByZero : NttCall(dir, f, rem)

SpecNttPre == InitNttPre /\ [][NextNttPre]_vars

\* the call was made with a length that is no multiple of the unit count, or
\* with no units
BadShape == call.D = 0 \/ Len(call.orig) % call.D # 0

\* C26: distributed_ntt reports a precondition error, before any element is
\* moved and before any dispatch, whenever the array length N is not a
\* multiple of the unit count D or the manager has no units (D = 0)
C26_NttPrecondition ==
  (call.op \in {"FORWARD", "INVERSE"} /\ BadShape) =>
     /\ call.err = "runtime_error"
     /\ call.vec = call.orig
     /\ call.launches = 0

\* what does hold: with at least one unit, a length that is no multiple of
\* the unit count is reported before anything is moved or launched
NttIndivisible ==
  (call.op \in {"FORWARD", "INVERSE"} /\ call.D # 0 /\ Len(call.orig) % call.D # 0) =>
     /\ call.err = "runtime_error"
     /\ call.vec = call.orig
     /\ call.launches = 0

(***************************************************************************)
(* Claims about the allocator's invariants.                                *)
(***************************************************************************)
\* two blocks of the free map f share a byte
FreeOverlap(f) ==
  \E k1 \in DOMAIN f : \E k2 \in DOMAIN f :
    k1 < k2 /\ k2 < k1 + f[k1] /\ f[k2] > 0

\* C27: after any sequence of alloc, free and reset calls in which every free
\* names an (offset, size) pair that alloc returned earlier, possibly more
\* than once, no two blocks of the free map overlap
C27_FreeDisjoint == ~FreeOverlap(heap.free)

\* what does hold: the free map is free of overlaps as long as no pair has
\* been freed twice
FreedTwice ==
  \E i \in 1..Len(hist) : hist[i].op = "free" /\ ~hist[i].wasLive
FreeDisjointUnlessFreedTwice == FreedTwice \/ ~FreeOverlap(heap.free)

\* C28: every offset alloc returns, for every request size including 0 and in
\* every allocator state, is strictly below the limit the allocator was given
C28_OffsetBelowLimit ==
  \A i \in 1..Len(hist) :
    (hist[i].op = "alloc" /\ hist[i].err = "none") => hist[i].off < heap.limit

\* what does hold: a request of at least one byte gets an offset below the
\* limit, with the whole rounded block below or at it
NonEmptyBelowLimit ==
  \A i \in 1..Len(hist) :
    (hist[i].op = "alloc" /\ hist[i].err = "none" /\ hist[i].bytes > 0) =>
       /\ hist[i].off < heap.limit
       /\ hist[i].off + RoundUp8(hist[i].bytes) <= heap.limit

\* all allocators of manager m are in the same state
Lockstep(m) ==
  \A u \in 1..Len(m.alloc_) : \A w \in 1..Len(m.alloc_) : m.alloc_[u] = m.alloc_[w]

\* C29: after any sequence of allocate_uniform, deallocate and reset_memory
\* calls all per-unit allocators are in the same state (same cur, same free
\* map), so the offset returned for unit 0 is the offset allocated on every unit
C29_Lockstep ==
  [][/\ Lockstep(mgr')
     /\ (AllocateStep /\ call'.err = "none") =>
           \A u \in 1..Len(mgr.alloc_) :
              /\ alloc(mgr.alloc_[u], call'.bytes).off = call'.off
              /\ alloc(mgr.alloc_[u], call'.bytes).st = mgr'.alloc_[u]]_vars

\* with more than one unit, an allocation has been served from a free block
\* of every unit, which it split, while the program holds another Block
C29_Witness ==
  /\ Len(mgr.alloc_) > 1
  /\ call.op = "allocate_uniform" /\ call.err = "none"
  /\ \A u \in 1..Len(mgr.alloc_) :
        /\ mgr.alloc_[u].free # EmptyMap
        /\ call.off + RoundUp8(call.bytes) \in DOMAIN mgr.alloc_[u].free
  /\ Cardinality(blocks) > 1


\* ---------------------------------------------------------------------------
\* The program building arrays of every length a size_t can hold
\* ---------------------------------------------------------------------------

\* How far above zero, and below the largest size_t, the lengths are taken
TotalSpan == 4 * ChunkAlign

\* Lengths passed to Vector(size_t n): the smallest and the largest ones
Totals == (1..TotalSpan) \cup ((SizeMod - TotalSpan)..(SizeMod - 1))

\* the manager initialised with 1..HwDpus units, and a length to build with
InitChunk ==
  /\ InitHeap
  /\ shutdown_mode = FALSE
  /\ mram = [u \in 1..HwDpus |-> [w \in 0..(MramWords - 1) |-> 0]]
  /\ wram = NoArgs
  /\ vec = [a \in Names |-> NoVector({})]
  /\ nsteps = 0
  /\ ops = <<>>
  /\ blocks = {}
  /\ threads = [t \in Threads |-> IdleThread]
  /\ pim_mutex_ = NoThread
  /\ \E D \in 1..HwDpus : mgr = init(PIMManager0, D, "main.dpu")
  /\ \E n \in Totals : call = [op |-> "input", total |-> n, D |-> 0, chunk_ |-> 0]

\* Vector::build up to its chunk_: D read from the manager, chunk_ computed
BuildChunk ==
  /\ Tick
  /\ call.op = "input"
  /\ call' = [call EXCEPT !.op = "build", !.D = mgr.dpu_n,
                          !.chunk_ = ChunkLen(call.total, mgr.dpu_n)]
  /\ UNCHANGED <<heapVars, thrVars, shutdown_mode, mgr, mram, wram, vec, ops, blocks>>

NextChunk == BuildChunk

SpecChunk == InitChunk /\ [][NextChunk]_vars

\* ceil(total / D), as a number
CeilDiv(n, D) == (n + D - 1) \div D

\* C30: for every total >= 1 and every unit count D >= 1, the chunk length
\* chosen by build, the same for every unit, satisfies D * chunk_len >= total
\* and 0 <= chunk_len - ceil(total / D) < 8.
C30_ChunkLen ==
  call.op = "build" =>
    /\ call.D * call.chunk_ >= call.total
    /\ 0 <= call.chunk_ - CeilDiv(call.total, call.D)
    /\ call.chunk_ - CeilDiv(call.total, call.D) < ChunkAlign

\* what does hold: the same for the lengths where neither sum of build wraps
ChunkLenBelowWrap ==
  (call.op = "build" /\ call.total + call.D + ChunkAlign <= SizeMod) =>
    /\ call.D * call.chunk_ >= call.total
    /\ 0 <= call.chunk_ - CeilDiv(call.total, call.D)
    /\ call.chunk_ - CeilDiv(call.total, call.D) < ChunkAlign


(***************************************************************************)
(* Claims about the cells of a chunk beyond the logical elements.          *)
(***************************************************************************)
\* the step built the array call'.a anew: a constructor, or a resize to
\* another length, that returned
BuiltStep ==
  /\ nsteps' # nsteps
  /\ call'.op \in {"Vector", "resize"} /\ call'.err = "none"
  /\ call'.op = "resize" => call'.n # vec[call'.a].total

\* every cell of v at a global position >= total holds zero
ZeroPadded(v) ==
  \A u \in 1..Len(v.shards) : \A k \in 1..Len(v.shards[u]) :
     (u - 1) * Len(v.shards[u]) + (k - 1) >= v.total => v.shards[u][k] = 0

\* C31: after an array of length total is built or resized with any fill
\* value, every chunk cell that lies beyond the logical elements (global
\* position >= total) holds zero.
C31_ZeroPadded ==
  [][BuiltStep => ZeroPadded(vec'[call'.a])]_vars

\* what does hold: the cells beyond the logical elements hold the fill value
\* (zero for the constructor and for resize(n))
FillPadded ==
  [][BuiltStep =>
       \A u \in 1..Len(vec'[call'.a].shards) :
          \A k \in 1..Len(vec'[call'.a].shards[u]) :
             vec'[call'.a].shards[u][k] = FillOf(call')]_vars


(***************************************************************************)
(* Claims about the absent-operand signal of the argument record.          *)
(***************************************************************************)
\* process_mram_blocks: the B operand of the record is read (offset_B != 0)
ReadsB(args) == args.B.offset # 0

\* C32: the absent-operand signal is unambiguous: in every dispatch of a
\* two-input operation the consumer of the record treats the B operand as
\* present, for every allocation order of the operand arrays, also when the
\* Block of B is at offset 0.
C32_OperandPresent ==
  (Dispatched /\ vec[call.op2].total > 0) => ReadsB(wram)

\* what does hold: B is treated as present whenever its Block is not the one
\* at offset 0
PresentAboveZero ==
  (Dispatched /\ vec[call.op2].total > 0 /\ vec[call.op2].off # 0) =>
     /\ ReadsB(wram)
     /\ wram.B.offset = vec[call.op2].off


(***************************************************************************)
(* The program of the NTT round trip building its twiddle tables.          *)
(***************************************************************************)
\* the Vector v after v[i] = data[i + 1] for every i < v.size(): operator[]
\* puts element i at the place Vector::locate gives it
with_elements(v, data) ==
  [v EXCEPT !.state = "HOST_DIRTY",
            !.shards = [u \in DOMAIN v.shards |->
                          [k \in DOMAIN v.shards[u] |->
                             LET i == (u - 1) * Len(v.shards[u]) + (k - 1)
                             IN  IF i < v.total THEN data[i + 1] ELSE v.shards[u][k]]]]

\* auto [W, W_inv] = replicated_twiddles(N, mod): both tables built, written
\* through operator[] and committed; W is the array "a", W_inv the array "b"
ReplicatedTwiddles ==
  /\ Tick
  /\ call.op = "input"
  /\ ~vec["a"].live /\ ~vec["b"].live
  /\ mgr.dpu_n > 0
  /\ \E N \in {Len(call.vec)} : \E D \in {mgr.dpu_n} :
     \E T \in {replicated_twiddles(N, call.q, D)} :
     \E bW \in {build(mgr, EmptyVector({}), N * D, 0)} :
     \E bI \in {build(bW.m, EmptyVector({}), N * D, 0)} :
       /\ bW.err = "none" /\ bI.err = "none"
       /\ \E cW \in {commit(mram, with_elements(bW.v, T.W))} :
          \E cI \in {commit(cW.mram, with_elements(bI.v, T.W_inv))} :
            /\ mgr' = bI.m
            /\ mram' = cI.mram
            /\ vec' = [vec EXCEPT !["a"] = cW.v, !["b"] = cI.v]
            /\ ops' = cW.ops \o cI.ops
  /\ UNCHANGED <<heapVars, thrVars, blocks, shutdown_mode, wram, call>>

NextTwiddles ==
  \/ ReplicatedTwiddles
  \/ \E f \in FaultAts : NttForward(f)
  \/ \E f \in FaultAts : NttInverse(f)

SpecTwiddles == InitNtt /\ [][NextTwiddles]_vars

(***************************************************************************)
(* Claims about the twiddle tables.                                        *)
(***************************************************************************)
\* the tables have been built
TablesBuilt == vec["a"].live /\ vec["b"].live

\* C33: after replicated_twiddles(N, q) with D units every unit holds the same
\* table: for every unit d and every k in [0, N) the value at local position k
\* of unit d's chunk of W is the k-th power of the chosen primitive root mod q
\* (position 0 holds 1), and likewise the inverse powers in the inverse table.
C33_Replicated ==
  TablesBuilt =>
    LET N     == Len(call.vec)
        omega == find_root(N, call.q)
        inv   == pow_mod_u64(omega, N - 1, call.q)
    IN  \A d \in 1..mgr.dpu_n : \A k \in 0..(N - 1) :
           /\ vec["a"].shards[d][k + 1] = pow_mod_u64(omega, k, call.q)
           /\ vec["b"].shards[d][k + 1] = pow_mod_u64(inv, k, call.q)

\* what does hold: every cell of both tables holds zero, on the host and on
\* the units
TablesAllZero ==
  TablesBuilt =>
    \A t \in {"a", "b"} : \A d \in 1..mgr.dpu_n :
       /\ \A k \in DOMAIN vec[t].shards[d] : vec[t].shards[d][k] = 0
       /\ \A w \in DOMAIN mram[d] : mram[d][w] = 0


(***************************************************************************)
(* Claims about the stage dispatches of a transform.                       *)
(***************************************************************************)
\* a transform has been called; its length
Transformed == call.op \in {"forward", "inverse"}
NttLen == Len(call.orig)

\* the launch carries the final flag (bit 1 of output_mod_factor)
IsLast(r) == r.out_factor \div 2 = 1

\* the launch carries the inverse flag (bit 0 of output_mod_factor)
IsInverse(r) == r.out_factor % 2 = 1

\* the launches follow the shape claimed for a whole transform
WholeTransform(S, N, D) ==
  /\ Len(S) = ilog2(N)
  /\ \A i \in DOMAIN S :
       /\ S[i].mod_factor = 2 ^ (i - 1)
       /\ S[i].A_size = N
       /\ IsLast(S[i]) <=> i = Len(S)
       /\ S[i].exchanged => S[i].mod_factor >= N \div D

\* C34: for N a power of two >= 2 and D a power of two dividing N, one
\* transform in either direction issues exactly log2(N) stage dispatches, one
\* per span value in {1, 2, 4, ..., N/2}, each covering the whole array; the
\* final flag is set on exactly one of them, the last one issued, and the
\* host-side exchange between units happens only before stages whose span is
\* at least the shard length N/D.
C34_StageDispatches ==
  Transformed => WholeTransform(call.stages, NttLen, call.D)

\* what does hold: the same for the transforms all of whose launches returned
StagesWhenReturned ==
  (Transformed /\ call.err = "none") => WholeTransform(call.stages, NttLen, call.D)

\* C35: in the inverse direction the stages are dispatched in the opposite
\* span order to the forward direction (span N/2 first, span 1 last), with no
\* bit-reversal pass before the first stage.
C35_InverseOrder ==
  [][(nsteps' # nsteps /\ call'.op = "inverse") =>
       /\ \A i \in DOMAIN call'.stages :
            call'.stages[i].mod_factor = NttLen \div (2 ^ i)
       /\ (call'.launches = 1 /\ call'.err # "none") => call'.vec = call.vec]_vars

\* what does hold: the inverse direction dispatches its stages in the order
\* of the forward direction, span 1 first, with no bit-reversal pass before
InverseSameOrder ==
  [][(nsteps' # nsteps /\ call'.op = "inverse") =>
       /\ \A i \in DOMAIN call'.stages :
            call'.stages[i].mod_factor = 2 ^ (i - 1)
       /\ (call'.launches = 1 /\ call'.err # "none") => call'.vec = call.vec]_vars

\* C36: in an inverse transform the argument record of the last stage dispatch
\* carries the modular inverse of N mod q in its scalar field together with
\* the inverse and final flags, so that each element is multiplied by N^-1 in
\* that dispatch.
C36_InverseScalar ==
  (call.op = "inverse" /\ Len(call.stages) = ilog2(NttLen)) =>
     LET r == call.stages[Len(call.stages)]
     IN  /\ IsInverse(r) /\ IsLast(r)
         /\ r.scalar = inverse_mod_u64(NttLen, call.q)

\* what does hold: that record carries both flags and the scalar 0
InverseScalarZero ==
  (call.op = "inverse" /\ Len(call.stages) = ilog2(NttLen)) =>
     LET r == call.stages[Len(call.stages)]
     IN  /\ IsInverse(r) /\ IsLast(r)
         /\ r.scalar = 0
         /\ inverse_mod_u64(NttLen, call.q) # 0


(***************************************************************************)
(* Claims about an allocation that fails inside build.                     *)
(***************************************************************************)
\* the step is a resize or a copy-assignment that ended in the allocator's
\* exception
FailedBuildStep ==
  /\ nsteps' # nsteps
  /\ call'.op \in {"resize", "operator=(const&)"}
  /\ call'.err # "none"

\* length and chunks of v fit the Block v holds
FitsBlock(v) ==
  /\ v.total = 0 <=> v.bytes = 0
  /\ v.bytes = 0 <=> v.shards = <<>>
  /\ v.bytes > 0 => Len(v.shards) * (v.bytes \div WordBytes) >= v.total

\* C37: if building, resizing or assigning an array fails because the
\* allocator is exhausted, the array no longer refers to the Block it released
\* before the failed allocation: a later destructor, clear, resize or
\* assignment of that array does not release that Block again, and the array's
\* length and chunks stay consistent with the Block it holds.
C37_FailedBuild ==
  [][FailedBuildStep =>
       LET B1 == vec'[call'.a]
       IN  /\ HoldsBlock(B1) => B1.rel = 0
           /\ deallocate_if_owner(mgr', B1).m = mgr'
           /\ FitsBlock(B1)]_vars

\* what does hold: after the failure the array still names the Block that
\* build released, with the old chunks
FailedBuildKeepsBlock ==
  [][(FailedBuildStep /\ HoldsBlock(vec[call'.a]) /\ vec[call'.a].total > 0) =>
       LET B0 == vec[call'.a]
           B1 == vec'[call'.a]
       IN  /\ B1.off = B0.off /\ B1.bytes = B0.bytes /\ B1.shards = B0.shards
           /\ B1.rel >= 1]_vars


(***************************************************************************)
(* The program dispatching EltwiseAddMod on arrays of different lengths.   *)
(***************************************************************************)
MixedLens == {ChunkAlign, 3 * ChunkAlign}

NextMixed ==
  \/ \E a \in Names, n \in MixedLens : Construct(a, n)
  \/ \E a \in Names, i \in Indices, x \in Values : Write(a, i, x)
  \/ \E dst \in Names, op1 \in Names, op2 \in Names, m \in Moduli :
        AddMod(dst, op1, op2, m)

SpecMixed == Init /\ [][NextMixed]_vars

(***************************************************************************)
(* Claims about the element count of the argument record.                  *)
(***************************************************************************)
\* the step is an EltwiseAddMod that reached run_kernel
DispatchStep ==
  nsteps' # nsteps /\ call'.op = "EltwiseAddMod" /\ call'.err = "none"

\* byte offset off of a unit lies in the Block of v
InBlock(v, off) == v.off <= off /\ off < v.off + v.bytes

\* C38: for every element-wise operation and all operand array lengths, the
\* element count placed in the argument record does not exceed the per-unit
\* capacity of any operand's Block (inputs and destination), so no unit reads
\* or writes device memory outside the Blocks of the operation's arrays.
C38_CountWithinBlocks ==
  [][DispatchStep =>
       /\ \A x \in {call'.op1, call'.op2, call'.dst} :
             wram'.A.size * WordBytes <= vec'[x].bytes
       /\ \A u \in DOMAIN mram : \A w \in DOMAIN mram[u] :
             mram'[u][w] # mram[u][w] =>
                \E x \in {call'.op1, call'.op2, call'.dst} :
                   InBlock(vec'[x], w * WordBytes)]_vars

\* what does hold: the element count is the per-unit capacity of the first
\* input's Block, whatever the other operands are
CountOfFirstInput ==
  [][DispatchStep =>
       /\ wram'.A.size * WordBytes = vec'[call'.op1].bytes
       /\ wram'.B.size = wram'.A.size /\ wram'.C.size = wram'.A.size]_vars


(***************************************************************************)
(* Claims about the allocator's bookkeeping.                               *)
(***************************************************************************)
\* the sum of the sizes of the blocks of the free map f
RECURSIVE free_bytes(_)
free_bytes(f) ==
  IF DOMAIN f = {} THEN 0
  ELSE LET k == CHOOSE x \in DOMAIN f : TRUE
       IN  f[k] + free_bytes([x \in (DOMAIN f) \ {k} |-> f[x]])

\* MramAllocator::get_stats: (allocated_bytes, total_capacity)
get_stats(st) == <<st.cur - free_bytes(st.free), st.limit>>

\* the bytes of the blocks currently allocated, each at its rounded size
RECURSIVE live_bytes(_)
live_bytes(L) ==
  IF L = {} THEN 0
  ELSE LET p == CHOOSE x \in L : TRUE
       IN  RoundUp8(p[2]) + live_bytes(L \ {p})

\* how many allocated blocks and how many free blocks hold byte x
Holders(x) ==
  Cardinality({p \in live : p[1] <= x /\ x < p[1] + RoundUp8(p[2])})
  + Cardinality({k \in DOMAIN heap.free : k <= x /\ x < k + heap.free[k]})

\* the allocated blocks and the free blocks tile [0, cur)
Tiled ==
  /\ \A x \in 0..(heap.cur - 1) : Holders(x) = 1
  /\ \A p \in live : p[1] + RoundUp8(p[2]) <= heap.cur
  /\ \A k \in DOMAIN heap.free : k + heap.free[k] <= heap.cur

\* C39: under any sequence of alloc and free calls in which each allocated
\* block is freed at most once with its original size, the currently allocated
\* blocks and the blocks of the free map together tile [0, cur) exactly
\* (pairwise disjoint, no gap), so the allocated-bytes statistic, cur minus
\* the sum of the free sizes, equals the total size of the blocks currently
\* allocated.
C39_Tiling ==
  ~FreedTwice =>
     /\ Tiled
     /\ get_stats(heap)[1] = live_bytes(live)


\* what does hold: the same as long as no block of zero bytes has been
\* requested
ZeroRequested ==
  \E i \in 1..Len(hist) : hist[i].op = "alloc" /\ hist[i].bytes = 0
TilingOfNonEmpty ==
  (~FreedTwice /\ ~ZeroRequested) =>
     /\ Tiled
     /\ get_stats(heap)[1] = live_bytes(live)


(***************************************************************************)
(* The program adding a scalar to a NativeVectorT in place, accelerated.   *)
(***************************************************************************)
\* scalars b passed to ModAddEq
Scalars == {1, 2}

\* the dispatch of NativeVectorT::ModAddEq(b), accelerated branch: the
\* destination is temp.m_data (named t), the input m_data (named a)
ModAddEq_dispatch(W, a, t, b, m) == EltwiseAddScalarMod(W, t, a, b, m)

\* v.ModAddEq(b) with UsePIMAcceleration(), m_data being the array a and
\* m_modulus m: temp (the array t) is copied from *this, the kernel is
\* dispatched, temp is destroyed on return or when an exception passes
ModAddEq(a, t, b, m) ==
  /\ Tick
  /\ vec[a].live /\ NextName(t)
  /\ CanBuild(vec[a].total)
  /\ \E c \in {copy_assign(mgr, mram, EmptyVector(vec[t].gone), vec[a])} :
       IF c.err # "none"
       THEN /\ mgr' = c.m
            /\ vec' = [vec EXCEPT ![a] = c.src, ![t] = NoVector(vec[t].gone)]
            /\ ops' = c.ops
            /\ call' = [op |-> "ModAddEq", a |-> a, b |-> b, m |-> m, err |-> c.err]
            /\ UNCHANGED <<mram, wram>>
       ELSE \E W \in {ModAddEq_dispatch(
                        [World EXCEPT !.mgr = c.m, !.vec[a] = c.src, !.vec[t] = c.dst],
                        a, t, b, m)} :
            \E d \in {destroy(W.mgr, W.vec[t])} :
              /\ mgr' = d.m
              /\ mram' = W.mram
              /\ wram' = W.wram
              /\ vec' = [W.vec EXCEPT ![t] = d.v]
              /\ ops' = c.ops \o W.ops
              /\ call' = [op |-> "ModAddEq", a |-> a, b |-> b, m |-> m,
                          err |-> IF vec[a].total = 0 THEN "runtime_error" ELSE "none"]
  /\ UNCHANGED <<heapVars, thrVars, blocks, shutdown_mode>>

NextNative ==
  \/ \E a \in Names, n \in Lens : Construct(a, n)
  \/ \E a \in Names, i \in Indices, x \in Values : Write(a, i, x)
  \/ \E a \in Names, t \in Names, b \in Scalars, m \in Moduli : ModAddEq(a, t, b, m)

SpecNative == Init /\ [][NextNative]_vars

(***************************************************************************)
(* Claims about NativeVectorT.                                             *)
(***************************************************************************)
\* the step is an accelerated ModAddEq that returned
ModAddEqStep == nsteps' # nsteps /\ call'.op = "ModAddEq" /\ call'.err = "none"

\* C40: with acceleration enabled, NativeVectorT::ModAddEq(scalar b) leaves
\* the receiver holding (x_i + b) mod m for every element, x_i < m being the
\* element before the call: the result of the CPU fallback path of the same
\* function.
C40_ModAddEq ==
  [][ModAddEqStep =>
       \A i \in 0..(vec[call'.a].total - 1) :
          LET x == subscript_const(mram, vec[call'.a], i).val
          IN  x < call'.m =>
                subscript_const(mram', vec'[call'.a], i).val = (x + call'.b) % call'.m]_vars

\* what does hold: the accelerated ModAddEq leaves every element of the
\* receiver as it was
ModAddEqKeepsReceiver ==
  [][ModAddEqStep =>
       /\ vec'[call'.a].total = vec[call'.a].total
       /\ \A i \in 0..(vec[call'.a].total - 1) :
             subscript_const(mram', vec'[call'.a], i).val
               = subscript_const(mram, vec[call'.a], i).val]_vars

=============================================================================
